---- MODULE Spec2Model ----
(***************************************************************************)
(* stxxl::sequence (include/stxxl/bits/containers/sequence.h): an external *)
(* deque kept in blocks of B elements, its forward and reverse streams,    *)
(* and the read/write block pool and block manager it is built on.         *)
(***************************************************************************)
EXTENDS Integers, Sequences, FiniteSets, TLC

\* block_type::size, the number of elements of one block
B == 2
\* the number of push calls of one run
MaxPush == 9
\* the number of push calls of a run that mixes all operations
MaxMixPush == 6
\* the pushes of a behaviour that ends with the destructor
MaxLifePush == 6
\* push calls in a run with calls that break a precondition
MaxMisusePush == 6
\* the write pool size init() asks for
MinWrite == 2
\* the write pool size init() resizes a smaller pool to
ResizeWrite == 3

\* the pool sizes and blocks2prefetch handed to the constructor
WPoolSizes == {1, 2, 3}
PPoolSizes == {0, 1}
B2PChoices == {-1, 0, 1}
\* the numbers of parallel disks handed to, or configured for, sequence(D)
DChoices == {1, 2}

\* the block identifiers the block manager hands out
BIDs == 1..(MaxPush \div B + 1)
\* a null block pointer
NullBlock == 0
\* block_type::begin() - 1 as an index
BeforeBegin == -1
\* the content of a block that was never written
Fresh == [i \in 0..(B - 1) |-> 0]

VARIABLES
    m_size,             \* current number of items in the sequence
    m_front_block,      \* current front block of sequence
    m_back_block,       \* current back block of sequence
    m_front_element,    \* index of the front element in m_front_block
    m_back_element,     \* index of the back element in m_back_block
    m_alloc_count,      \* block allocation counter
    m_bids,             \* allocated block identifiers, front to back
    m_blocks2prefetch,  \* number of blocks to prefetch
    m_owns_pool,        \* whether the m_pool object is own and should be deleted
    mem,                \* the elements of every block of memory
    w_free,             \* write pool: free blocks
    w_busy,             \* write pool: writes in flight, [block, bid]
    p_free,             \* prefetch pool: free blocks
    p_busy,             \* prefetch pool: hinted reads, [block, bid, done]
    disk,               \* the content stored under each BID
    bm_used,            \* the BIDs the block manager has handed out
    s_kind,             \* the live stream: "none", "stream", "reverse_stream"
    s_size,             \* stream: m_size, elements left
    s_current_element,  \* stream: index of m_current_element
    s_current_block,    \* stream: m_current_block
    s_next_bid,         \* stream: m_next_bid as a position in m_bids
    err,                \* "none", or the failure the process died of
    ref,                \* the std::deque the test drives beside the sequence
    npush,              \* push calls so far
    emitted,            \* the values read from the live stream so far
    s_offset,           \* the offset the live stream was constructed at
    lastOp,             \* the operation that ran last
    io,                 \* the pool and block manager calls of that operation
    values,             \* test_range: the std::vector the stream is made of
    m_current,          \* the stream's position in values, from 1
    m_stream,           \* the InputStream* of the range the loop increments
    range_pc,           \* where main() of test_range is
    range_from,         \* the stream's position when the loop began
    visited,            \* the values the body of the loop was run with
    range_err,          \* "none", or the undefined behaviour the loop ran into
    v_disk,             \* stxxl::vector: the content of its blocks on disk
    v_cache,            \* stxxl::vector: the pages it holds in memory
    v_dirty,            \* stxxl::vector: the pages changed since they were read
    it_begin,           \* the iterator begin handed to the algorithm
    it_end,             \* the iterator end handed to the algorithm
    scan_op,            \* "idle", "filled", or the algorithm that ran
    scan_pre,           \* the elements of the vector before the algorithm ran
    scan_calls,         \* the values the functor was called with, or returned
    scan_trace,         \* the reads and writes of the run, in order
    scan_ret,           \* the iterator find returned
    scan_value,         \* the value find was to look for
    scan_in,            \* the input stream when the algorithm returned
    scan_race,          \* a block was read while a write to it was in flight
    m_pool,             \* the pool the sequence points to, by number
    that,               \* the other sequence object: its members, its deque
    object,             \* the object the sequence variables are of: "a", "b"
    nswitch,            \* the times the test went over to the other object
    nswap               \* swap calls so far

seqvars == <<m_size, m_front_block, m_back_block, m_front_element,
             m_back_element, m_alloc_count, m_bids, m_blocks2prefetch,
             m_owns_pool>>
envvars == <<mem, w_free, w_busy, p_free, p_busy, disk, bm_used>>
strvars == <<s_kind, s_size, s_current_element, s_current_block, s_next_bid,
             emitted, s_offset>>
vars == <<seqvars, envvars, strvars, err, ref, npush, lastOp, io>>
rangevars == <<values, m_current, m_stream, range_pc, range_from, visited,
               range_err>>
\* what the operations of the sequence leave alone
scanvars == <<v_disk, v_cache, v_dirty, it_begin, it_end, scan_op, scan_pre,
              scan_calls, scan_trace, scan_ret, scan_value, scan_in,
              scan_race>>
twovars == <<m_pool, that, object, nswitch, nswap>>
auxvars == <<rangevars, scanvars, twovars>>
allvars == <<vars, auxvars>>

\* no range-based for loop was started
RangeIdle ==
    /\ values = <<>>
    /\ m_current = 1
    /\ m_stream = "none"
    /\ range_pc = "idle"
    /\ range_from = 1
    /\ visited = <<>>
    /\ range_err = "none"

\* block_type::size of the vector, and the number of its blocks
VecBlock == 3
VecBlocks == 3
VecSize == VecBlock * VecBlocks
VecBids == 0..(VecBlocks - 1)
\* a page that is not in memory
NoPage == <<>>
\* what is on disk under a page that is dirty in memory
Stale == -1

\* no input stream: nothing to read, nothing taken
NoInput == [next |-> 0, last |-> 0, bufs |-> <<>>, elem |-> 0, taken |-> 0]

\* no vector was filled
ScanIdle ==
    /\ v_disk = [b \in VecBids |-> [o \in 0..(VecBlock - 1) |-> 0]]
    /\ v_cache = [b \in VecBids |-> NoPage]
    /\ v_dirty = {}
    /\ it_begin = 0
    /\ it_end = 0
    /\ scan_op = "idle"
    /\ scan_pre = <<>>
    /\ scan_calls = <<>>
    /\ scan_trace = <<>>
    /\ scan_ret = 0
    /\ scan_value = 0
    /\ scan_in = NoInput
    /\ scan_race = FALSE

\* a pool without blocks, and an object that was not constructed
NoPool == [mem |-> <<>>, w_free |-> <<>>, w_busy |-> <<>>, p_free |-> <<>>,
           p_busy |-> <<>>]
NoSequence ==
    [m_size |-> 0, m_front_block |-> NullBlock, m_back_block |-> NullBlock,
     m_front_element |-> 0, m_back_element |-> BeforeBegin,
     m_alloc_count |-> 0, m_bids |-> <<>>, m_blocks2prefetch |-> 0,
     m_owns_pool |-> FALSE, m_pool |-> 0, ref |-> <<>>, npush |-> 0,
     pool |-> NoPool]

\* one sequence object, a, on the pool number 1
TwoIdle ==
    /\ m_pool = 1
    /\ that = NoSequence
    /\ object = "a"
    /\ nswitch = 0
    /\ nswap = 0

AuxIdle == RangeIdle /\ ScanIdle /\ TwoIdle

----------------------------------------------------------------------------
(* Sequences helpers *)

Last(s) == s[Len(s)]
Front(s) == SubSeq(s, 1, Len(s) - 1)
RemoveAt(s, k) == SubSeq(s, 1, k - 1) \o SubSeq(s, k + 1, Len(s))
Reverse(s) == [i \in 1..Len(s) |-> s[Len(s) + 1 - i]]
Min(a, b) == IF a < b THEN a ELSE b
MaxOf(S) == CHOOSE x \in S : \A y \in S : y <= x

\* the write pool holds at most MaxWrite blocks, the prefetch pool MaxPrefetch
MaxWrite == MaxOf(WPoolSizes \cup {ResizeWrite} \cup {d + 2 : d \in DChoices})
MaxPrefetch == MaxOf(PPoolSizes \cup DChoices)
\* the blocks of memory: those of the write pool, then those of the prefetch pool
Blocks == 1..(MaxWrite + MaxPrefetch)

\* the cells lo..hi of block blk, in order
Cells(m, blk, lo, hi) == [i \in 1..(hi - lo + 1) |-> m[blk][lo + i - 1]]

\* seeded fault: std::copy called with the arguments of std::copy_backward,
\* so that d_last is taken for the start of the destination
CopyForwardFromLast(m, sb, first, last, db, d_last) ==
    LET n == last - first
    IN  [m EXCEPT ![db] = [i \in 0..(B - 1) |->
            IF d_last <= i /\ i < d_last + n
            THEN m[sb][first + (i - d_last)]
            ELSE m[db][i]]]

\* std::copy_backward(first, last, d_last) from block sb into block db
CopyBackward(m, sb, first, last, db, d_last) ==
    LET n == last - first
    IN  [m EXCEPT ![db] = [i \in 0..(B - 1) |->
            IF d_last - n <= i /\ i < d_last
            THEN m[sb][first + (i - (d_last - n))]
            ELSE m[db][i]]]

\* std::copy(first, last, d_first) from block sb into block db
Copy(m, sb, first, last, db, d_first) ==
    LET n == last - first
    IN  [m EXCEPT ![db] = [i \in 0..(B - 1) |->
            IF d_first <= i /\ i < d_first + n
            THEN m[sb][first + (i - d_first)]
            ELSE m[db][i]]]

----------------------------------------------------------------------------
(* The environment of one handler: memory, pools, disk, block manager, the *)
(* calls made so far, blk (the block pointer a call hands back) and bid.   *)

Env == [mem |-> mem, w_free |-> w_free, w_busy |-> w_busy, p_free |-> p_free,
        p_busy |-> p_busy, disk |-> disk, used |-> bm_used, io |-> <<>>,
        err |-> "none", blk |-> NullBlock, bid |-> 0]

CommitEnv(e) ==
    /\ mem' = e.mem
    /\ w_free' = e.w_free
    /\ w_busy' = e.w_busy
    /\ p_free' = e.p_free
    /\ p_busy' = e.p_busy
    /\ disk' = e.disk
    /\ bm_used' = e.used
    /\ io' = e.io

\* what a handler of the sequence leaves behind; it touches nothing else
Commit(e) == CommitEnv(e) /\ UNCHANGED auxvars

\* the positions of the writes in flight for bid
WritesOf(e, bid) == {k \in 1..Len(e.w_busy) : e.w_busy[k].bid = bid}
\* the positions of the hinted reads for bid
HintsOf(e, bid) == {k \in 1..Len(e.p_busy) : e.p_busy[k].bid = bid}

\* what a read of bid delivers: the block of the write in flight, else the disk
Stored(e, bid) ==
    IF WritesOf(e, bid) # {}
    THEN e.mem[e.w_busy[MaxOf(WritesOf(e, bid))].block]
    ELSE e.disk[bid]

\* write_pool::steal: a free block, else the block of a write it waits for
\* (c picks the write that completes first), else the pool is exhausted
Steal(e, c) ==
    IF e.w_free # <<>>
    THEN [e EXCEPT !.blk = Last(e.w_free), !.w_free = Front(e.w_free),
                   !.io = Append(@, <<"steal", 0>>)]
    ELSE IF e.w_busy # <<>>
    THEN LET k == ((c - 1) % Len(e.w_busy)) + 1
             w == e.w_busy[k]
         IN  [e EXCEPT !.blk = w.block, !.w_busy = RemoveAt(e.w_busy, k),
                       !.disk[w.bid] = e.mem[w.block],
                       !.io = Append(@, <<"steal", 0>>)]
    ELSE [e EXCEPT !.blk = NullBlock, !.err = "PoolExhaustion",
                   !.io = Append(@, <<"steal", 0>>)]

\* the writes a steal of this handler may have to choose from
StealChoices == IF w_free = <<>> THEN 1..(Len(w_busy) + 1) ELSE {1}

\* read_write_pool::add: the block joins the free blocks of the write pool
Add(e, blk) ==
    [e EXCEPT !.w_free = Append(@, blk), !.io = Append(@, <<"add", 0>>)]

\* read_write_pool::write: the pool takes the block and submits its write;
\* an older write to the same bid is finished first
Write(e, blk, bid) ==
    LET kept == SelectSeq(e.w_busy, LAMBDA w : w.bid # bid)
        freed == [k \in 1..Len(SelectSeq(e.w_busy, LAMBDA w : w.bid = bid)) |->
                     SelectSeq(e.w_busy, LAMBDA w : w.bid = bid)[k].block]
    IN  [e EXCEPT !.w_busy = Append(kept, [block |-> blk, bid |-> bid]),
                  !.w_free = @ \o freed,
                  !.blk = NullBlock,
                  !.io = Append(@, <<"write", bid>>)]

\* write_pool::steal_request followed by request::wait: the write in flight
\* for bid is finished, and its block leaves the write pool
FinishWrite(e, bid) ==
    LET k == MaxOf(WritesOf(e, bid))
    IN  [e EXCEPT !.disk[bid] = e.mem[e.w_busy[k].block],
                  !.w_busy = RemoveAt(e.w_busy, k),
                  !.blk = e.w_busy[k].block,
                  !.io = Append(@, <<"wait", bid>>)]

\* read_write_pool::hint: start reading bid into a free prefetch block,
\* unless bid is hinted already or no block is free; if the write of bid is
\* still in flight, it is waited for, the written block becomes the
\* prefetched one and the free block goes to the write pool
Hint(e, bid) ==
    IF HintsOf(e, bid) # {} \/ e.p_free = <<>>
    THEN [e EXCEPT !.io = Append(@, <<"hint", bid>>)]
    ELSE IF WritesOf(e, bid) # {}
    THEN LET e1 == FinishWrite(e, bid)
         IN  [e1 EXCEPT !.p_free = Front(e.p_free),
                        !.w_free = Append(@, Last(e.p_free)),
                        !.p_busy = Append(@, [block |-> e1.blk, bid |-> bid,
                                              done |-> TRUE]),
                        !.blk = e.blk,
                        !.io = Append(@, <<"hint", bid>>)]
    ELSE [e EXCEPT !.p_free = Front(e.p_free),
                   !.p_busy = Append(@, [block |-> Last(e.p_free), bid |-> bid,
                                         done |-> FALSE]),
                   !.io = Append(@, <<"hint", bid>>)]

\* read_write_pool::read followed by request::wait: a hinted read hands over
\* its block and takes the caller's; else a write of bid still in flight is
\* waited for and hands over its block; else the block is read in place
Read(e, blk, bid) ==
    IF HintsOf(e, bid) # {}
    THEN LET k == MaxOf(HintsOf(e, bid))
             h == e.p_busy[k]
         IN  [e EXCEPT !.p_free = Append(@, blk),
                       !.p_busy = RemoveAt(e.p_busy, k),
                       !.blk = h.block,
                       !.mem[h.block] = IF h.done THEN @ ELSE Stored(e, bid),
                       !.io = Append(@, <<"read", bid>>)]
    ELSE IF WritesOf(e, bid) # {}
    THEN LET e1 == FinishWrite(e, bid)
         IN  [e1 EXCEPT !.w_free = Append(@, blk),
                        !.io = Append(@, <<"read", bid>>)]
    ELSE [e EXCEPT !.blk = blk,
                   !.mem[blk] = Stored(e, bid),
                   !.io = Append(@, <<"read", bid>>)]

\* block_manager::new_block: a BID that is not in use
NewBlock(e) ==
    LET bid == CHOOSE b \in BIDs \ e.used : \A c \in BIDs \ e.used : b <= c
    IN  [e EXCEPT !.used = @ \cup {bid}, !.bid = bid,
                  !.io = Append(@, <<"new_block", bid>>)]

\* block_manager::delete_block
DeleteBlock(e, bid) ==
    [e EXCEPT !.used = @ \ {bid}, !.io = Append(@, <<"delete_block", bid>>)]

\* the hints of a loop over the BIDs hs, in order
RECURSIVE Hints(_, _)
Hints(e, hs) == IF hs = <<>> THEN e ELSE Hints(Hint(e, Head(hs)), Tail(hs))

----------------------------------------------------------------------------
(* Construction *)

\* seeded fault: init() without the resize of a write pool below 2 blocks
SizeWriteNoResize(w) == w

\* sequence::init: the write pool holds at least 2 blocks, else it is resized to 3
SizeWriteAfterInit(w) == IF w < MinWrite THEN ResizeWrite ELSE w

\* sequence::set_prefetch_aggr
PrefetchAggr(blocks2prefetch, size_prefetch) ==
    IF blocks2prefetch < 0 THEN size_prefetch ELSE blocks2prefetch

\* the state init() leaves: the pool was created, or handed in, with w
\* write blocks and p prefetch blocks; op records the constructor call
Constructed(w, p, b2p, owns, op) ==
    LET sw == SizeWriteAfterInit(w) IN
    /\ m_size = 0
    /\ m_owns_pool = owns
    /\ m_alloc_count = 0
    /\ m_bids = <<>>
    /\ m_front_block = sw
    /\ m_back_block = sw
    /\ m_back_element = BeforeBegin
    /\ m_front_element = 0
    /\ m_blocks2prefetch = PrefetchAggr(b2p, p)
    /\ mem = [b \in Blocks |-> Fresh]
    /\ w_free = [i \in 1..(sw - 1) |-> i]
    /\ w_busy = <<>>
    /\ p_free = [i \in 1..p |-> MaxWrite + i]
    /\ p_busy = <<>>
    /\ disk = [b \in BIDs |-> Fresh]
    /\ bm_used = {}
    /\ s_kind = "none"
    /\ s_size = 0
    /\ s_current_element = 0
    /\ s_current_block = NullBlock
    /\ s_next_bid = 0
    /\ err = "none"
    /\ ref = <<>>
    /\ npush = 0
    /\ emitted = <<>>
    /\ s_offset = 0
    /\ lastOp = op
    /\ io = << <<"steal", 0>> >>
    /\ AuxIdle

\* sequence::sequence(w_pool_size, p_pool_size, blocks2prefetch) and init()
Init ==
    \E w \in WPoolSizes, p \in PPoolSizes, b2p \in B2PChoices :
        Constructed(w, p, b2p, TRUE, [op |-> "init", case |-> "init", val |-> 0])

\* seeded fault: the sizes handed to pool_type in the other order
DefaultPoolSwapped(disks) == [p |-> disks + 2, w |-> disks]

\* the pool sequence(D) creates for disks parallel disks:
\* new pool_type(disks, disks + 2), prefetch blocks first
DefaultPool(disks) == [p |-> disks, w |-> disks + 2]

\* the three constructors, each followed by init(); lastOp keeps the
\* constructor, its number of disks and the sizes of the pool before init()
InitLife ==
    \/ \E D \in {-1} \cup DChoices, disks_number \in DChoices :
           LET disks == IF D < 1 THEN disks_number ELSE D
               pool == DefaultPool(disks)
           IN  Constructed(pool.w, pool.p, -1, TRUE,
                           [op |-> "init", case |-> "D",
                            val |-> [d |-> disks, w |-> pool.w, p |-> pool.p]])
    \/ \E w \in WPoolSizes, p \in PPoolSizes, b2p \in B2PChoices :
           Constructed(w, p, b2p, TRUE,
                       [op |-> "init", case |-> "sizes",
                        val |-> [d |-> 0, w |-> w, p |-> p]])
    \/ \E w \in WPoolSizes, p \in PPoolSizes, b2p \in B2PChoices :
           Constructed(w, p, b2p, FALSE,
                       [op |-> "init", case |-> "pool",
                        val |-> [d |-> 0, w |-> w, p |-> p]])

\* sequence(w_pool_size, 1, 4): one prefetch block, four blocks to prefetch
InitPrefetch ==
    \E w \in WPoolSizes :
        Constructed(w, 1, 4, TRUE, [op |-> "init", case |-> "init", val |-> 0])

----------------------------------------------------------------------------
(* The operations of the sequence.  Every push stores the next value of a  *)
(* counter, so that all elements differ.                                   *)

NoStream == s_kind = "none"

SetSeq(size, fb, bb, fe, be, ac, bids) ==
    /\ m_size' = size
    /\ m_front_block' = fb
    /\ m_back_block' = bb
    /\ m_front_element' = fe
    /\ m_back_element' = be
    /\ m_alloc_count' = ac
    /\ m_bids' = bids
    /\ UNCHANGED <<m_blocks2prefetch, m_owns_pool>>

\* the process dies: of a failed assert, or of a steal from an exhausted pool
Abort(e, why) ==
    /\ err' = why
    /\ Commit(e)
    /\ UNCHANGED <<seqvars, strvars>>

Store(e, blk, i, val) == [e EXCEPT !.mem[blk][i] = val]

\* sequence::push_front, Case 0: the sequence is empty
\* seeded fault: Case 0 of push_front puts both elements on
\* m_front_block->end() instead of end() - 1
PushFrontCase0AtEnd(val) ==
    IF m_front_block # m_back_block
    THEN Abort(Env, "assert")
    ELSE /\ SetSeq(m_size + 1, m_front_block, m_back_block, B, B,
                   m_alloc_count, m_bids)
         /\ Commit(Store(Env, m_front_block, B, val))
         /\ UNCHANGED <<strvars, err>>

PushFrontCase0(val) ==
    IF m_front_block # m_back_block
    THEN Abort(Env, "assert")
    ELSE /\ SetSeq(m_size + 1, m_front_block, m_back_block, B - 1, B - 1,
                   m_alloc_count, m_bids)
         /\ Commit(Store(Env, m_front_block, B - 1, val))
         /\ UNCHANGED <<strvars, err>>

\* seeded fault: Case 1.5 of push_front without m_back_element += gap
PushFrontCase15KeepsBack(val) ==
    LET gap == B - (m_back_element + 1)
        m1 == CopyBackward(mem, m_back_block, 0, m_back_element + 1,
                           m_back_block, B)
        m2 == CopyBackward(m1, m_front_block, B - gap, B, m_back_block, gap)
        m3 == CopyBackward(m2, m_front_block, 0, B - gap, m_front_block, B)
        fe == (m_front_element + gap) - 1
    IN  IF ~(m_bids = <<>> /\ gap > 0)
        THEN Abort(Env, "assert")
        ELSE /\ SetSeq(m_size + 1, m_front_block, m_back_block, fe,
                       m_back_element, m_alloc_count, m_bids)
             /\ Commit(Store([Env EXCEPT !.mem = m3], m_front_block, fe, val))
             /\ UNCHANGED <<strvars, err>>

\* sequence::push_front, Case 1.5: two blocks with a gap at the end
PushFrontCase15(val) ==
    LET gap == B - (m_back_element + 1)
        m1 == CopyBackward(mem, m_back_block, 0, m_back_element + 1,
                           m_back_block, B)
        m2 == CopyBackward(m1, m_front_block, B - gap, B, m_back_block, gap)
        m3 == CopyBackward(m2, m_front_block, 0, B - gap, m_front_block, B)
        fe == (m_front_element + gap) - 1
    IN  IF ~(m_bids = <<>> /\ gap > 0)
        THEN Abort(Env, "assert")
        ELSE /\ SetSeq(m_size + 1, m_front_block, m_back_block, fe,
                       m_back_element + gap, m_alloc_count, m_bids)
             /\ Commit(Store([Env EXCEPT !.mem = m3], m_front_block, fe, val))
             /\ UNCHANGED <<strvars, err>>

\* sequence::push_front, the end of Case 1 and Case 2: a stolen block
\* becomes the front block
PushFrontSteal(e, c, val, ac, bids) ==
    LET e1 == Steal(e, c)
    IN  IF e1.err # "none"
        THEN Abort(e1, e1.err)
        ELSE /\ SetSeq(m_size + 1, e1.blk, m_back_block, B - 1, m_back_element,
                       ac, bids)
             /\ Commit(Store(e1, e1.blk, B - 1, val))
             /\ UNCHANGED <<strvars, err>>

\* seeded fault: Case 2 of push_front hints the new BID whatever the number
\* of BIDs is
PushFrontCase2HintsAlways(c, val) ==
    LET e1 == NewBlock(Env)
        bids == <<e1.bid>> \o m_bids
        e2 == Write(e1, m_front_block, e1.bid)
        e3 == Hint(e2, e1.bid)
    IN  PushFrontSteal(e3, c, val, m_alloc_count + 1, bids)

\* sequence::push_front, Case 2: the front block is written out
PushFrontCase2(c, val) ==
    LET e1 == NewBlock(Env)
        bids == <<e1.bid>> \o m_bids
        e2 == Write(e1, m_front_block, e1.bid)
        e3 == IF Len(bids) <= m_blocks2prefetch THEN Hint(e2, e1.bid) ELSE e2
    IN  PushFrontSteal(e3, c, val, m_alloc_count + 1, bids)

\* seeded fault: Case 1.5 taken with up to 2B elements, size() <= 2 * B
PushFrontCaseUpTo2B(size, fe, fb, bb) ==
    IF fe = 0
    THEN IF size = 0 THEN "0"
         ELSE IF fb = bb THEN "1"
         ELSE IF size <= 2 * B THEN "1.5"
         ELSE "2"
    ELSE "3"

PushFrontCase(size, fe, fb, bb) ==
    IF fe = 0
    THEN IF size = 0 THEN "0"
         ELSE IF fb = bb THEN "1"
         ELSE IF size < 2 * B THEN "1.5"
         ELSE "2"
    ELSE "3"

\* sequence::push_front
push_front(c) ==
    LET val == npush + 1
        case == PushFrontCase(m_size, m_front_element, m_front_block,
                              m_back_block)
    IN  /\ err = "none" /\ NoStream /\ npush < MaxPush
        /\ CASE case = "0" -> PushFrontCase0(val)
             [] case = "1" -> PushFrontSteal(Env, c, val, m_alloc_count, m_bids)
             [] case = "1.5" -> PushFrontCase15(val)
             [] case = "2" -> PushFrontCase2(c, val)
             [] OTHER ->
                  /\ SetSeq(m_size + 1, m_front_block, m_back_block,
                            m_front_element - 1, m_back_element,
                            m_alloc_count, m_bids)
                  /\ Commit(Store(Env, m_front_block, m_front_element - 1, val))
                  /\ UNCHANGED <<strvars, err>>
        /\ ref' = <<val>> \o ref
        /\ npush' = npush + 1
        /\ lastOp' = [op |-> "push_front", case |-> case, val |-> val]

\* seeded fault: Case 1.5 of push_back without m_front_element -= gap
PushBackCase15KeepsFront(val) ==
    LET gap == m_front_element
        m1 == Copy(mem, m_front_block, m_front_element, B, m_front_block, 0)
        m2 == Copy(m1, m_back_block, 0, gap, m_front_block, B - gap)
        m3 == Copy(m2, m_back_block, gap, B, m_back_block, 0)
        be == (m_back_element - gap) + 1
    IN  IF ~(m_bids = <<>> /\ gap > 0)
        THEN Abort(Env, "assert")
        ELSE /\ SetSeq(m_size + 1, m_front_block, m_back_block,
                       m_front_element, be, m_alloc_count, m_bids)
             /\ Commit(Store([Env EXCEPT !.mem = m3], m_back_block, be, val))
             /\ UNCHANGED <<strvars, err>>

\* sequence::push_back, Case 1.5: two blocks with a gap in the beginning
PushBackCase15(val) ==
    LET gap == m_front_element
        m1 == Copy(mem, m_front_block, m_front_element, B, m_front_block, 0)
        m2 == Copy(m1, m_back_block, 0, gap, m_front_block, B - gap)
        m3 == Copy(m2, m_back_block, gap, B, m_back_block, 0)
        be == (m_back_element - gap) + 1
    IN  IF ~(m_bids = <<>> /\ gap > 0)
        THEN Abort(Env, "assert")
        ELSE /\ SetSeq(m_size + 1, m_front_block, m_back_block,
                       m_front_element - gap, be, m_alloc_count, m_bids)
             /\ Commit(Store([Env EXCEPT !.mem = m3], m_back_block, be, val))
             /\ UNCHANGED <<strvars, err>>

\* sequence::push_back, the end of Case 1 and Case 2: a stolen block becomes
\* the back block
PushBackSteal(e, c, val, ac, bids) ==
    LET e1 == Steal(e, c)
    IN  IF e1.err # "none"
        THEN Abort(e1, e1.err)
        ELSE /\ SetSeq(m_size + 1, m_front_block, e1.blk, m_front_element, 0,
                       ac, bids)
             /\ Commit(Store(e1, e1.blk, 0, val))
             /\ UNCHANGED <<strvars, err>>

\* seeded fault: Case 2 of push_back puts the new BID at the front of m_bids
PushBackCase2BidAtFront(c, val) ==
    LET e1 == NewBlock(Env)
        bids == <<e1.bid>> \o m_bids
        e2 == Write(e1, m_back_block, e1.bid)
        e3 == IF Len(bids) <= m_blocks2prefetch THEN Hint(e2, e1.bid) ELSE e2
    IN  PushBackSteal(e3, c, val, m_alloc_count + 1, bids)

\* sequence::push_back, Case 2: the back block is written out
PushBackCase2(c, val) ==
    LET e1 == NewBlock(Env)
        bids == Append(m_bids, e1.bid)
        e2 == Write(e1, m_back_block, e1.bid)
        e3 == IF Len(bids) <= m_blocks2prefetch THEN Hint(e2, e1.bid) ELSE e2
    IN  PushBackSteal(e3, c, val, m_alloc_count + 1, bids)

\* seeded fault: push_back writes its full block out although it is the
\* front block as well
PushBackCaseWritesShared(size, be, fb, bb) ==
    IF be = B - 1
    THEN IF size < 2 * B /\ fb # bb THEN "1.5"
         ELSE "2"
    ELSE "3"

PushBackCase(size, be, fb, bb) ==
    IF be = B - 1
    THEN IF fb = bb THEN "1"
         ELSE IF size < 2 * B THEN "1.5"
         ELSE "2"
    ELSE "3"

\* sequence::push_back
push_back(c) ==
    LET val == npush + 1
        case == PushBackCase(m_size, m_back_element, m_front_block, m_back_block)
    IN  /\ err = "none" /\ NoStream /\ npush < MaxPush
        /\ CASE case = "1" -> PushBackSteal(Env, c, val, m_alloc_count, m_bids)
             [] case = "1.5" -> PushBackCase15(val)
             [] case = "2" -> PushBackCase2(c, val)
             [] OTHER ->
                  /\ SetSeq(m_size + 1, m_front_block, m_back_block,
                            m_front_element, m_back_element + 1,
                            m_alloc_count, m_bids)
                  /\ Commit(Store(Env, m_back_block, m_back_element + 1, val))
                  /\ UNCHANGED <<strvars, err>>
        /\ ref' = Append(ref, val)
        /\ npush' = npush + 1
        /\ lastOp' = [op |-> "push_back", case |-> case, val |-> val]

\* seeded fault: Case 1 of pop_front without the reset of the positions
PopFrontCase1NoReset ==
    IF ~(m_size = 1 /\ m_back_element = m_front_element /\ m_bids = <<>>)
    THEN Abort(Env, "assert")
    ELSE /\ SetSeq(0, m_front_block, m_back_block, m_front_element,
                   m_back_element, m_alloc_count, m_bids)
         /\ Commit(Env)
         /\ UNCHANGED <<strvars, err>>

\* sequence::pop_front, Case 1: the only element of the only block
PopFrontCase1 ==
    IF ~(m_size = 1 /\ m_back_element = m_front_element /\ m_bids = <<>>)
    THEN Abort(Env, "assert")
    ELSE /\ SetSeq(0, m_front_block, m_back_block, 0, BeforeBegin,
                   m_alloc_count, m_bids)
         /\ Commit(Env)
         /\ UNCHANGED <<strvars, err>>

\* seeded fault: Case 2 of pop_front without m_front_block = m_back_block
PopFrontCase2KeepsFront ==
    IF m_bids # <<>>
    THEN Abort(Env, "assert")
    ELSE /\ SetSeq(m_size - 1, m_front_block, m_back_block, 0, m_back_element,
                   m_alloc_count, m_bids)
         /\ Commit(Add(Env, m_front_block))
         /\ UNCHANGED <<strvars, err>>

\* sequence::pop_front, Case 2: the back block is the next block
PopFrontCase2 ==
    IF m_bids # <<>>
    THEN Abort(Env, "assert")
    ELSE /\ SetSeq(m_size - 1, m_back_block, m_back_block, 0, m_back_element,
                   m_alloc_count, m_bids)
         /\ Commit(Add(Env, m_front_block))
         /\ UNCHANGED <<strvars, err>>

\* seeded fault: the hint loop of pop_front without i < m_blocks2prefetch
PopFrontHintsAll(bids, b2p) == Tail(bids)

\* the BIDs pop_front hints: m_bids[i + 1] for i < m_blocks2prefetch and
\* i < m_bids.size() - 1
PopFrontHints(bids, b2p) == SubSeq(bids, 2, 1 + Min(b2p, Len(bids) - 1))

\* seeded fault: Case 3 of pop_front without m_bm->delete_block
PopFrontCase3NoDelete ==
    IF m_bids = <<>>
    THEN Abort(Env, "assert")
    ELSE LET e1 == Read(Env, m_front_block, Head(m_bids))
             e2 == Hints(e1, PopFrontHints(m_bids, m_blocks2prefetch))
         IN  /\ SetSeq(m_size - 1, e1.blk, m_back_block, 0, m_back_element,
                       m_alloc_count, Tail(m_bids))
             /\ Commit(e2)
             /\ UNCHANGED <<strvars, err>>

\* seeded fault: Case 3 of pop_front keeps its own block pointer and ignores
\* the block that read() has exchanged for the prefetched one
PopFrontCase3KeepsBlock ==
    IF m_bids = <<>>
    THEN Abort(Env, "assert")
    ELSE LET e1 == Read(Env, m_front_block, Head(m_bids))
             e2 == Hints(e1, PopFrontHints(m_bids, m_blocks2prefetch))
             e3 == DeleteBlock(e2, Head(m_bids))
         IN  /\ SetSeq(m_size - 1, m_front_block, m_back_block, 0,
                       m_back_element, m_alloc_count, Tail(m_bids))
             /\ Commit(e3)
             /\ UNCHANGED <<strvars, err>>

\* sequence::pop_front, Case 3: the next block is read from the front BID
PopFrontCase3 ==
    IF m_bids = <<>>
    THEN Abort(Env, "assert")
    ELSE LET e1 == Read(Env, m_front_block, Head(m_bids))
             e2 == Hints(e1, PopFrontHints(m_bids, m_blocks2prefetch))
             e3 == DeleteBlock(e2, Head(m_bids))
         IN  /\ SetSeq(m_size - 1, e1.blk, m_back_block, 0, m_back_element,
                       m_alloc_count, Tail(m_bids))
             /\ Commit(e3)
             /\ UNCHANGED <<strvars, err>>

\* seeded fault: pop_front compares the size before --m_size
PopFrontCaseBeforeDecrement(size, fe, fb, bb) ==
    IF fe = B - 1
    THEN IF bb = fb THEN "1"
         ELSE IF size <= B THEN "2"
         ELSE "3"
    ELSE "4"

PopFrontCase(size, fe, fb, bb) ==
    IF fe = B - 1
    THEN IF bb = fb THEN "1"
         ELSE IF size - 1 <= B THEN "2"
         ELSE "3"
    ELSE "4"

\* sequence::front
front == mem[m_front_block][m_front_element]

\* sequence::back
back == mem[m_back_block][m_back_element]

\* sequence::pop_front, called on a sequence that is not empty; lastOp keeps
\* the front() read before it
pop_front ==
    LET case == PopFrontCase(m_size, m_front_element, m_front_block,
                             m_back_block)
    IN  /\ err = "none" /\ NoStream /\ m_size # 0
        /\ CASE case = "1" -> PopFrontCase1
             [] case = "2" -> PopFrontCase2
             [] case = "3" -> PopFrontCase3
             [] OTHER ->
                  /\ SetSeq(m_size - 1, m_front_block, m_back_block,
                            m_front_element + 1, m_back_element,
                            m_alloc_count, m_bids)
                  /\ Commit(Env)
                  /\ UNCHANGED <<strvars, err>>
        /\ ref' = Tail(ref)
        /\ lastOp' = [op |-> "pop_front", case |-> case, val |-> front]
        /\ UNCHANGED npush

\* sequence::pop_back, Case 1: the only element of the only block
PopBackCase1 ==
    IF ~(m_size = 1 /\ m_back_element = m_front_element /\ m_bids = <<>>)
    THEN Abort(Env, "assert")
    ELSE /\ SetSeq(0, m_front_block, m_back_block, 0, BeforeBegin,
                   m_alloc_count, m_bids)
         /\ Commit(Env)
         /\ UNCHANGED <<strvars, err>>

\* sequence::pop_back, Case 2: the front block is the next block
PopBackCase2 ==
    IF m_bids # <<>>
    THEN Abort(Env, "assert")
    ELSE /\ SetSeq(m_size - 1, m_front_block, m_front_block, m_front_element,
                   B - 1, m_alloc_count, m_bids)
         /\ Commit(Add(Env, m_back_block))
         /\ UNCHANGED <<strvars, err>>

\* the BIDs pop_back hints: m_bids[m_bids.size() - 1 - i] for i from 1 while
\* i < m_blocks2prefetch and i < m_bids.size() - 1
PopBackHints(bids, b2p) ==
    [i \in 1..(Min(b2p, Len(bids) - 1) - 1) |-> bids[Len(bids) - i]]

\* seeded fault: Case 3 of pop_back keeps its own block pointer and ignores
\* the block that read() has exchanged for the one that holds the data
PopBackCase3KeepsBlock ==
    IF m_bids = <<>>
    THEN Abort(Env, "assert")
    ELSE LET e1 == Read(Env, m_back_block, Last(m_bids))
             e2 == Hints(e1, PopBackHints(m_bids, m_blocks2prefetch))
             e3 == DeleteBlock(e2, Last(m_bids))
         IN  /\ SetSeq(m_size - 1, m_front_block, m_back_block,
                       m_front_element, B - 1, m_alloc_count, Front(m_bids))
             /\ Commit(e3)
             /\ UNCHANGED <<strvars, err>>

\* sequence::pop_back, Case 3: the next block is read from the back BID
PopBackCase3 ==
    IF m_bids = <<>>
    THEN Abort(Env, "assert")
    ELSE LET e1 == Read(Env, m_back_block, Last(m_bids))
             e2 == Hints(e1, PopBackHints(m_bids, m_blocks2prefetch))
             e3 == DeleteBlock(e2, Last(m_bids))
         IN  /\ SetSeq(m_size - 1, m_front_block, e1.blk, m_front_element,
                       B - 1, m_alloc_count, Front(m_bids))
             /\ Commit(e3)
             /\ UNCHANGED <<strvars, err>>

\* seeded fault: pop_back compares the size before --m_size
PopBackCaseBeforeDecrement(size, be, fb, bb) ==
    IF be = 0
    THEN IF bb = fb THEN "1"
         ELSE IF size <= B THEN "2"
         ELSE "3"
    ELSE "4"

PopBackCase(size, be, fb, bb) ==
    IF be = 0
    THEN IF bb = fb THEN "1"
         ELSE IF size - 1 <= B THEN "2"
         ELSE "3"
    ELSE "4"

\* sequence::pop_back, called on a sequence that is not empty; lastOp keeps
\* the back() read before it
pop_back ==
    LET case == PopBackCase(m_size, m_back_element, m_front_block, m_back_block)
    IN  /\ err = "none" /\ NoStream /\ m_size # 0
        /\ CASE case = "1" -> PopBackCase1
             [] case = "2" -> PopBackCase2
             [] case = "3" -> PopBackCase3
             [] OTHER ->
                  /\ SetSeq(m_size - 1, m_front_block, m_back_block,
                            m_front_element, m_back_element - 1,
                            m_alloc_count, m_bids)
                  /\ Commit(Env)
                  /\ UNCHANGED <<strvars, err>>
        /\ ref' = Front(ref)
        /\ lastOp' = [op |-> "pop_back", case |-> case, val |-> back]
        /\ UNCHANGED npush

----------------------------------------------------------------------------
(* The block driver completes requests in the background.                  *)

\* a write in flight completes: its block is on disk and free again
CompleteWrite ==
    \E k \in 1..Len(w_busy) :
        /\ err = "none"
        /\ disk' = [disk EXCEPT ![w_busy[k].bid] = mem[w_busy[k].block]]
        /\ w_free' = Append(w_free, w_busy[k].block)
        /\ w_busy' = RemoveAt(w_busy, k)
        /\ UNCHANGED <<seqvars, strvars, mem, p_free, p_busy, bm_used, err, ref,
                       npush, lastOp, io, auxvars>>

\* a hinted read completes: its block holds the content of the BID
CompleteRead ==
    \E k \in 1..Len(p_busy) :
        /\ err = "none"
        /\ ~p_busy[k].done
        /\ mem' = [mem EXCEPT ![p_busy[k].block] = Stored(Env, p_busy[k].bid)]
        /\ p_busy' = [p_busy EXCEPT ![k].done = TRUE]
        /\ UNCHANGED <<seqvars, strvars, w_free, w_busy, p_free, disk, bm_used,
                       err, ref, npush, lastOp, io, auxvars>>

----------------------------------------------------------------------------
(* sequence::stream and sequence::reverse_stream.  One stream is live at a *)
(* time and the sequence is not changed while it is.  s_next_bid is the    *)
(* position in m_bids of the BID the iterator points at: Len(m_bids) + 1   *)
(* is end() for a stream and 0 is rend() for a reverse_stream.             *)

\* m_current_element = nullptr
NullElement == -2

SetStream(kind, size, blk, elem, next, out, off) ==
    /\ s_kind' = kind
    /\ s_size' = size
    /\ s_current_block' = blk
    /\ s_current_element' = elem
    /\ s_next_bid' = next
    /\ emitted' = out
    /\ s_offset' = off

StreamFrame == UNCHANGED <<seqvars, err, ref, npush>>

\* stream::stream(const sequence&)
get_stream ==
    /\ err = "none" /\ NoStream
    /\ SetStream("stream", m_size, m_front_block, m_front_element, 1, <<>>, 0)
    /\ Commit(Env)
    /\ lastOp' = [op |-> "get_stream", case |-> "front", val |-> 0]
    /\ StreamFrame

\* the BIDs a stream hints after it read the BID at position nb
StreamHints(bids, nb, b2p) == SubSeq(bids, nb + 1, Min(Len(bids), nb + b2p))

\* the branch of stream::stream(const sequence&, size_t offset)
StreamOffsetCase(offset, size, fe, be) ==
    IF offset + fe < B THEN "first"
    ELSE IF size - offset <= be + 1 THEN "last"
    ELSE "middle"

\* stream::stream(const sequence&, size_t offset)
get_stream_at(offset, c) ==
    LET front_diff == m_front_element
        back_diff == m_back_element
        case == StreamOffsetCase(offset, m_size, front_diff, back_diff)
        mid_offset == offset - (B - front_diff)
        block_shift == mid_offset \div B
        block_offset == mid_offset % B
        e1 == Steal(Env, c)
        nb == block_shift + 1
        e2 == Read(e1, e1.blk, m_bids[nb])
        e3 == Hints(e2, StreamHints(m_bids, nb, m_blocks2prefetch))
    IN  /\ err = "none" /\ NoStream
        /\ CASE case = "first" ->
                  /\ SetStream("stream", m_size - offset, m_front_block,
                               m_front_element + offset, 1, <<>>, offset)
                  /\ Commit(Env)
                  /\ StreamFrame
             [] case = "last" ->
                  /\ SetStream("stream", m_size - offset, m_back_block,
                               block_offset, Len(m_bids) + 1, <<>>, offset)
                  /\ Commit(Env)
                  /\ StreamFrame
             [] OTHER ->
                  IF e1.err # "none"
                  THEN Abort(e1, e1.err) /\ UNCHANGED <<ref, npush>>
                  ELSE /\ SetStream("stream", m_size - offset, e2.blk,
                                    block_offset, nb + 1, <<>>, offset)
                       /\ Commit(e3)
                       /\ StreamFrame
        /\ lastOp' = [op |-> "get_stream", case |-> case, val |-> offset]

\* seeded fault: stream::operator++ never steals a block of its own, and
\* reads the next block into the block it stands on
StreamNextCaseNoSteal(size, elem, blk, fb) ==
    IF elem = B - 1
    THEN IF size - 1 = 0 THEN "end"
         ELSE IF size - 1 <= B THEN "last"
         ELSE "fetch"
    ELSE "step"

\* the branch of stream::operator++
StreamNextCase(size, elem, blk, fb) ==
    IF elem = B - 1
    THEN IF size - 1 = 0 THEN "end"
         ELSE IF size - 1 <= B THEN "last"
         ELSE IF blk = fb THEN "steal"
         ELSE "fetch"
    ELSE "step"

\* seeded fault: stream::operator++ without ++m_next_bid after the read
StreamFetchKeepsCursor(e, out) ==
    IF s_next_bid = Len(m_bids) + 1
    THEN Abort(e, "assert")
    ELSE LET e1 == Read(e, e.blk, m_bids[s_next_bid])
             e2 == Hints(e1, StreamHints(m_bids, s_next_bid, m_blocks2prefetch))
         IN  /\ SetStream(s_kind, s_size - 1, e1.blk, 0, s_next_bid, out,
                          s_offset)
             /\ Commit(e2)
             /\ UNCHANGED <<seqvars, err>>

\* stream::operator++, fetch next block
StreamFetch(e, out) ==
    IF s_next_bid = Len(m_bids) + 1
    THEN Abort(e, "assert")
    ELSE LET e1 == Read(e, e.blk, m_bids[s_next_bid])
             e2 == Hints(e1, StreamHints(m_bids, s_next_bid, m_blocks2prefetch))
         IN  /\ SetStream(s_kind, s_size - 1, e1.blk, 0, s_next_bid + 1, out,
                          s_offset)
             /\ Commit(e2)
             /\ UNCHANGED <<seqvars, err>>

\* stream::operator* and stream::operator++ of a stream that is not empty
stream_next(c) ==
    LET case == StreamNextCase(s_size, s_current_element, s_current_block,
                               m_front_block)
        out == Append(emitted, mem[s_current_block][s_current_element])
        e1 == Steal(Env, c)
    IN  /\ err = "none" /\ s_kind = "stream" /\ s_size # 0
        /\ CASE case = "end" ->
                  IF ~(s_next_bid = Len(m_bids) + 1
                       /\ s_current_block = m_back_block)
                  THEN Abort(Env, "assert")
                  ELSE /\ SetStream(s_kind, s_size - 1, s_current_block,
                                    NullElement, s_next_bid, out, s_offset)
                       /\ Commit(Env)
                       /\ UNCHANGED <<seqvars, err>>
             [] case = "last" ->
                  IF s_next_bid # Len(m_bids) + 1
                  THEN Abort(Env, "assert")
                  ELSE /\ SetStream(s_kind, s_size - 1, m_back_block, 0,
                                    s_next_bid, out, s_offset)
                       /\ Commit(IF s_current_block # m_front_block
                                 THEN Add(Env, s_current_block) ELSE Env)
                       /\ UNCHANGED <<seqvars, err>>
             [] case = "steal" ->
                  IF e1.err # "none"
                  THEN Abort(e1, e1.err)
                  ELSE StreamFetch(e1, out)
             [] case = "fetch" ->
                  StreamFetch([Env EXCEPT !.blk = s_current_block], out)
             [] OTHER ->
                  /\ SetStream(s_kind, s_size - 1, s_current_block,
                               s_current_element + 1, s_next_bid, out, s_offset)
                  /\ Commit(Env)
                  /\ UNCHANGED <<seqvars, err>>
        /\ lastOp' = [op |-> "stream_next", case |-> case, val |-> Last(out)]
        /\ UNCHANGED <<ref, npush>>

\* reverse_stream::reverse_stream(const sequence&)
get_reverse_stream ==
    /\ err = "none" /\ NoStream
    /\ SetStream("reverse_stream", m_size, m_back_block, m_back_element,
                 Len(m_bids), <<>>, 0)
    /\ Commit(Env)
    /\ lastOp' = [op |-> "get_reverse_stream", case |-> "back", val |-> 0]
    /\ StreamFrame

\* the BIDs a reverse_stream hints after it read the BID at position nb
ReverseHints(bids, nb, b2p) == [i \in 1..Min(b2p, nb - 1) |-> bids[nb - i]]

\* seeded fault: reverse_stream::operator++ goes on in the front block only
\* with fewer than B elements left, m_size < block_type::size
ReverseNextCaseBelowB(size, elem, blk, bb) ==
    IF elem = 0
    THEN IF size - 1 = 0 THEN "end"
         ELSE IF size - 1 < B THEN "last"
         ELSE IF blk = bb THEN "steal"
         ELSE "fetch"
    ELSE "step"

\* the branch of reverse_stream::operator++
ReverseNextCase(size, elem, blk, bb) ==
    IF elem = 0
    THEN IF size - 1 = 0 THEN "end"
         ELSE IF size - 1 <= B THEN "last"
         ELSE IF blk = bb THEN "steal"
         ELSE "fetch"
    ELSE "step"

\* reverse_stream::operator++, fetch previous block
ReverseFetch(e, out) ==
    IF s_next_bid = 0
    THEN Abort(e, "assert")
    ELSE LET e1 == Read(e, e.blk, m_bids[s_next_bid])
             e2 == Hints(e1, ReverseHints(m_bids, s_next_bid, m_blocks2prefetch))
         IN  /\ SetStream(s_kind, s_size - 1, e1.blk, B - 1, s_next_bid - 1,
                          out, s_offset)
             /\ Commit(e2)
             /\ UNCHANGED <<seqvars, err>>

\* reverse_stream::operator* and reverse_stream::operator++ of a stream that
\* is not empty
reverse_next(c) ==
    LET case == ReverseNextCase(s_size, s_current_element, s_current_block,
                                m_back_block)
        out == Append(emitted, mem[s_current_block][s_current_element])
        e1 == Steal(Env, c)
    IN  /\ err = "none" /\ s_kind = "reverse_stream" /\ s_size # 0
        /\ CASE case = "end" ->
                  IF ~(s_next_bid = 0 /\ s_current_block = m_front_block)
                  THEN Abort(Env, "assert")
                  ELSE /\ SetStream(s_kind, s_size - 1, s_current_block,
                                    NullElement, s_next_bid, out, s_offset)
                       /\ Commit(Env)
                       /\ UNCHANGED <<seqvars, err>>
             [] case = "last" ->
                  IF s_next_bid # 0
                  THEN Abort(Env, "assert")
                  ELSE /\ SetStream(s_kind, s_size - 1, m_front_block, B - 1,
                                    s_next_bid, out, s_offset)
                       /\ Commit(IF s_current_block # m_back_block
                                 THEN Add(Env, s_current_block) ELSE Env)
                       /\ UNCHANGED <<seqvars, err>>
             [] case = "steal" ->
                  IF e1.err # "none"
                  THEN Abort(e1, e1.err)
                  ELSE ReverseFetch(e1, out)
             [] case = "fetch" ->
                  ReverseFetch([Env EXCEPT !.blk = s_current_block], out)
             [] OTHER ->
                  /\ SetStream(s_kind, s_size - 1, s_current_block,
                               s_current_element - 1, s_next_bid, out, s_offset)
                  /\ Commit(Env)
                  /\ UNCHANGED <<seqvars, err>>
        /\ lastOp' = [op |-> "reverse_next", case |-> case, val |-> Last(out)]
        /\ UNCHANGED <<ref, npush>>

\* seeded fault: ~stream without the add of the block the stream has stolen
StreamCloseNoAdd ==
    /\ err = "none" /\ ~NoStream
    /\ SetStream("none", 0, NullBlock, 0, 0, <<>>, 0)
    /\ Commit(Env)
    /\ lastOp' = [op |-> "stream_close", case |-> s_kind, val |-> 0]
    /\ StreamFrame

\* stream::~stream and reverse_stream::~reverse_stream
stream_close ==
    /\ err = "none" /\ ~NoStream
    /\ SetStream("none", 0, NullBlock, 0, 0, <<>>, 0)
    /\ Commit(IF s_current_block # m_front_block
                 /\ s_current_block # m_back_block
              THEN Add(Env, s_current_block) ELSE Env)
    /\ lastOp' = [op |-> "stream_close", case |-> s_kind, val |-> 0]
    /\ StreamFrame

----------------------------------------------------------------------------
(* Destruction *)

\* the sequence object exists
Alive == m_front_block # NullBlock

\* delete m_pool: the pools wait for every request in flight and free their
\* blocks
DeletePool(e) ==
    [e EXCEPT !.disk = [b \in BIDs |->
                           IF WritesOf(e, b) # {} THEN Stored(e, b) ELSE @[b]],
              !.w_free = <<>>, !.w_busy = <<>>, !.p_free = <<>>,
              !.p_busy = <<>>,
              !.io = Append(@, <<"delete_pool", 0>>)]

\* block_manager::delete_blocks(begin, end)
RECURSIVE DeleteBlocks(_, _)
DeleteBlocks(e, bids) ==
    IF bids = <<>> THEN e
    ELSE DeleteBlocks(DeleteBlock(e, Head(bids)), Tail(bids))

\* sequence::~sequence
sequence_dtor ==
    LET e1 == IF m_front_block # m_back_block THEN Add(Env, m_back_block)
              ELSE Env
        e2 == Add(e1, m_front_block)
        e3 == IF m_owns_pool THEN DeletePool(e2) ELSE e2
        e4 == IF m_bids # <<>> THEN DeleteBlocks(e3, m_bids) ELSE e3
    IN  /\ err = "none" /\ NoStream /\ Alive
        /\ SetSeq(0, NullBlock, NullBlock, 0, BeforeBegin, m_alloc_count, <<>>)
        /\ Commit(e4)
        /\ lastOp' = [op |-> "~sequence",
                      case |-> IF m_owns_pool THEN "owned" ELSE "external",
                      val |-> Len(m_bids)]
        /\ UNCHANGED <<strvars, err, ref, npush>>

----------------------------------------------------------------------------
(* Calls that break a precondition.  The preconditions are checked with    *)
(* assert(!empty()), which aborts in a build with assertions and is        *)
(* compiled out under NDEBUG (CMAKE_BUILD_TYPE=Release); the call then     *)
(* runs its body on the empty object, which is undefined behaviour: the    *)
(* model takes both builds, records what the body does and stops the       *)
(* process there with err = "undefined".                                   *)

\* whether assert() is compiled in
Asserts == BOOLEAN

\* (size_type)0 - 1 wraps to the largest size_type, 2^64 - 1; the model keeps
\* it as -1, the same bits read as a signed number
WrapDecrement(n) == n - 1

\* the values a read outside of a block can return
Garbage == 0..MaxMisusePush

\* the failed assert: abort, nothing returned, nothing changed
AssertFails(op) ==
    /\ Abort(Env, "assert")
    /\ lastOp' = [op |-> op, case |-> "assert", val |-> 0]
    /\ UNCHANGED <<ref, npush>>

\* sequence::front called on an empty sequence
front_empty ==
    /\ err = "none" /\ m_size = 0
    /\ \E a \in Asserts :
         IF a THEN AssertFails("front")
         ELSE /\ err' = "undefined"
              /\ lastOp' = [op |-> "front", case |-> "ndebug", val |-> front]
              /\ Commit(Env)
              /\ UNCHANGED <<seqvars, strvars, ref, npush>>

\* sequence::back called on an empty sequence; m_back_element may be
\* begin() - 1, outside of the block
back_empty ==
    /\ err = "none" /\ m_size = 0
    /\ \E a \in Asserts, g \in Garbage :
         IF a THEN AssertFails("back")
         ELSE /\ IF m_back_element = BeforeBegin THEN TRUE ELSE g = back
              /\ err' = "undefined"
              /\ lastOp' = [op |-> "back", case |-> "ndebug", val |-> g]
              /\ Commit(Env)
              /\ UNCHANGED <<seqvars, strvars, ref, npush>>

\* sequence::pop_front called on an empty sequence: one block, no BID
pop_front_empty ==
    /\ err = "none" /\ NoStream /\ m_size = 0
    /\ \E a \in Asserts :
         IF a THEN AssertFails("pop_front")
         ELSE /\ IF PopFrontCase(m_size, m_front_element, m_front_block,
                                 m_back_block) = "1"
                 THEN SetSeq(WrapDecrement(m_size), m_front_block,
                             m_back_block, 0, BeforeBegin, m_alloc_count,
                             m_bids)
                 ELSE SetSeq(WrapDecrement(m_size), m_front_block,
                             m_back_block, m_front_element + 1,
                             m_back_element, m_alloc_count, m_bids)
              /\ err' = "undefined"
              /\ lastOp' = [op |-> "pop_front", case |-> "ndebug", val |-> 0]
              /\ Commit(Env)
              /\ UNCHANGED <<strvars, ref, npush>>

\* sequence::pop_back called on an empty sequence: one block, no BID
pop_back_empty ==
    /\ err = "none" /\ NoStream /\ m_size = 0
    /\ \E a \in Asserts :
         IF a THEN AssertFails("pop_back")
         ELSE /\ IF PopBackCase(m_size, m_back_element, m_front_block,
                                m_back_block) = "1"
                 THEN SetSeq(WrapDecrement(m_size), m_front_block,
                             m_back_block, 0, BeforeBegin, m_alloc_count,
                             m_bids)
                 ELSE SetSeq(WrapDecrement(m_size), m_front_block,
                             m_back_block, m_front_element,
                             m_back_element - 1, m_alloc_count, m_bids)
              /\ err' = "undefined"
              /\ lastOp' = [op |-> "pop_back", case |-> "ndebug", val |-> 0]
              /\ Commit(Env)
              /\ UNCHANGED <<strvars, ref, npush>>

\* stream::operator* of an exhausted stream; m_current_element is nullptr
\* after a clean end at the block end, else one past the last element
stream_deref_empty ==
    /\ err = "none" /\ s_kind = "stream" /\ s_size = 0
    /\ \E a \in Asserts, g \in Garbage :
         IF a THEN AssertFails("operator*")
         ELSE /\ IF s_current_element \notin 0..(B - 1) THEN TRUE
                 ELSE g = mem[s_current_block][s_current_element]
              /\ err' = "undefined"
              /\ lastOp' = [op |-> "operator*", case |-> "ndebug", val |-> g]
              /\ Commit(Env)
              /\ UNCHANGED <<seqvars, strvars, ref, npush>>

\* stream::operator++ of an exhausted stream: --m_size wraps; at the block
\* end the body goes on to the fetch of a next block and steals a block for
\* it if it stands on the front block
stream_next_empty(c) ==
    LET e1 == Steal(Env, c)
        atEnd == s_current_element = B - 1
        steals == atEnd /\ s_current_block = m_front_block
    IN  /\ err = "none" /\ s_kind = "stream" /\ s_size = 0
        /\ \E a \in Asserts :
             IF a THEN AssertFails("operator++")
             ELSE /\ IF steals /\ e1.err # "none"
                     THEN /\ err' = e1.err
                          /\ UNCHANGED strvars
                     ELSE /\ err' = "undefined"
                          /\ SetStream(s_kind, WrapDecrement(s_size),
                                       IF steals THEN e1.blk
                                       ELSE s_current_block,
                                       IF atEnd THEN s_current_element
                                       ELSE s_current_element + 1,
                                       s_next_bid, emitted, s_offset)
                  /\ Commit(IF steals THEN e1 ELSE Env)
                  /\ lastOp' = [op |-> "operator++", case |-> "ndebug",
                                val |-> 0]
                  /\ UNCHANGED <<seqvars, ref, npush>>

----------------------------------------------------------------------------
(* stxxl::stream::stream2range (include/stxxl/bits/stream/range.h) and the *)
(* loop of tests/stream/test_range.cpp.  The stream is the one streamify() *)
(* makes of a std::vector: a position m_current that runs up to the end.   *)

\* the number of values of the vector
MaxValues == 4
\* the values the vector is filled with
RangeValues == 0..2

\* what the range test leaves alone
RangeFrame == UNCHANGED <<vars, scanvars, twovars>>

\* the stream is exhausted: its position is the end of the vector
stream_empty(cur) == cur = Len(values) + 1

\* main(): fill the vector and streamify(values.begin(), values.end())
streamify ==
    /\ range_pc = "idle"
    /\ \E n \in 0..MaxValues : \E vs \in [1..n -> RangeValues] :
           values' = vs
    /\ m_current' = 1
    /\ range_pc' = "stream"
    /\ UNCHANGED <<m_stream, range_from, visited, range_err>>

\* ++stream before the loop: the loop is to visit what remains
stream_advance ==
    /\ range_pc = "stream"
    /\ ~stream_empty(m_current)
    /\ m_current' = m_current + 1
    /\ UNCHANGED <<values, m_stream, range_pc, range_from, visited, range_err>>

\* stream2range::begin(): range(&this->m_input), whatever the stream holds
range_begin_ptr(cur) == "m_input"

\* the head of the loop: range(stream).begin() and .end()
range_begin ==
    /\ range_pc = "stream"
    /\ m_stream' = range_begin_ptr(m_current)
    /\ range_from' = m_current
    /\ range_pc' = "loop"
    /\ UNCHANGED <<values, m_current, visited, range_err>>

\* one turn of the loop: it != end (range::operator!=), v = *it
\* (range::operator*), the body, ++it (range::operator++).  *it on the
\* exhausted stream reads *values.end(): undefined behaviour, the body gets
\* any value and the process is followed no further.
range_loop ==
    /\ range_pc = "loop"
    /\ IF m_stream = "nullptr"
       THEN /\ range_pc' = "done"
            /\ UNCHANGED <<values, m_current, m_stream, range_from, visited,
                           range_err>>
       ELSE IF stream_empty(m_current)
       THEN /\ \E g \in Garbage : visited' = Append(visited, g)
            /\ range_err' = "undefined"
            /\ range_pc' = "undefined"
            /\ UNCHANGED <<values, m_current, m_stream, range_from>>
       ELSE /\ visited' = Append(visited, values[m_current])
            /\ m_current' = m_current + 1
            /\ m_stream' = IF stream_empty(m_current + 1) THEN "nullptr"
                           ELSE m_stream
            /\ UNCHANGED <<values, range_pc, range_from, range_err>>

InitRange ==
    Constructed(MinWrite, 0, 0, TRUE, [op |-> "init", case |-> "init", val |-> 0])

NextRange ==
    \/ streamify /\ RangeFrame
    \/ stream_advance /\ RangeFrame
    \/ range_begin /\ RangeFrame
    \/ range_loop /\ RangeFrame

SpecRange == InitRange /\ [][NextRange]_allvars

----------------------------------------------------------------------------
(* The scan algorithms of include/stxxl/bits/algo/scan.h over an external  *)
(* vector: for_each, for_each_m, generate, find.  The vector, its page     *)
(* cache and the buffered streams are those of spec.md 4.5 - 4.7; a page   *)
(* of the vector is one block.  One run is the record st: the vector       *)
(* (disk, cache, dirty), the input stream (in), the output stream (out),   *)
(* the blocks written through out (wr), and what the run did.              *)

\* the nbuffers handed to the algorithm: the default, and 4 as in test_vector
NBuffers == {0, 4}
\* the functor of for_each_m: tmp += FunctorAdds
FunctorAdds == 10
\* the generator: its i-th call (from 0) returns GeneratorFirst + i
GeneratorFirst == 100

\* iterator::bid() (as the number of the block) and iterator::block_offset()
BidOf(i) == i \div VecBlock
BlockOffset(i) == i % VecBlock

\* the element i of a vector: from its page in memory, else from disk
ElementOf(d, c, i) ==
    IF c[BidOf(i)] # NoPage THEN c[BidOf(i)][BlockOffset(i)]
    ELSE d[BidOf(i)][BlockOffset(i)]
ElementsOf(d, c) == [i \in 1..VecSize |-> ElementOf(d, c, i - 1)]
Elements == ElementsOf(v_disk, v_cache)

Run == [disk |-> v_disk, cache |-> v_cache, dirty |-> v_dirty,
        in |-> NoInput,
        out |-> [bid |-> 0, buf |-> <<>>], wr |-> {},
        calls |-> <<>>, trace |-> <<>>, ret |-> 0, race |-> FALSE]

\* the vector reads a page that is not in memory
ReadPage(st, b) ==
    IF st.cache[b] # NoPage THEN st
    ELSE [st EXCEPT !.cache[b] = st.disk[b],
                    !.trace = Append(@, <<"page_read", b>>),
                    !.race = @ \/ b \in st.wr]

\* *it as an rvalue, and *it = x
Deref(st, i) == ReadPage(st, BidOf(i)).cache[BidOf(i)][BlockOffset(i)]
Assign(st, i, x) ==
    LET s1 == ReadPage(st, BidOf(i))
    IN  [s1 EXCEPT !.cache[BidOf(i)][BlockOffset(i)] = x,
                   !.dirty = @ \cup {BidOf(i)}]

\* iterator::flush(), vector::flush(): the dirty pages are written, all
\* pages leave the memory
Flush(st) ==
    [st EXCEPT !.disk = [b \in VecBids |-> IF b \in st.dirty THEN st.cache[b]
                                           ELSE st.disk[b]],
               !.cache = [b \in VecBids |-> NoPage],
               !.dirty = {},
               !.trace = Append(@, <<"flush", st.dirty>>)]

\* iterator::block_externally_updated(): the page leaves the memory
block_externally_updated(st, b) == [st EXCEPT !.cache[b] = NoPage]

\* buf_istream: one read of block b is issued
RECURSIVE IssueReads(_, _)
IssueReads(st, n) ==
    IF n = 0 \/ st.in.next >= st.in.last THEN st
    ELSE IssueReads(
             [st EXCEPT !.in.bufs = Append(@, st.disk[st.in.next]),
                        !.in.next = @ + 1,
                        !.trace = Append(@, <<"read", st.in.next>>),
                        !.race = @ \/ st.in.next \in st.wr],
             n - 1)

\* buf_istream in(first, last, nbuffers): up to nbuffers reads are issued
buf_istream(st, first, last, nbuffers) ==
    IssueReads([st EXCEPT !.in = [next |-> first, last |-> last,
                                  bufs |-> <<>>, elem |-> 0, taken |-> 0]],
               nbuffers)

\* *in, and ++in: at the end of a block the next one is taken and one more
\* read is issued
Current(st) == Head(st.in.bufs)[st.in.elem]
Advance(st) ==
    IF st.in.elem + 1 < VecBlock
    THEN [st EXCEPT !.in.elem = @ + 1, !.in.taken = @ + 1]
    ELSE IssueReads([st EXCEPT !.in.elem = 0, !.in.bufs = Tail(@),
                               !.in.taken = @ + 1], 1)

\* buf_ostream out(first, nbuffers), and *out = x; ++out: a full block is
\* written to the next BID
buf_ostream(st, first) == [st EXCEPT !.out = [bid |-> first, buf |-> <<>>]]
Put(st, x) ==
    LET buf == Append(st.out.buf, x)
    IN  IF Len(buf) < VecBlock THEN [st EXCEPT !.out.buf = buf]
        ELSE [st EXCEPT !.out = [bid |-> @.bid + 1, buf |-> <<>>],
                        !.disk[st.out.bid] = [o \in 0..(VecBlock - 1) |->
                                                 buf[o + 1]],
                        !.wr = @ \cup {st.out.bid},
                        !.trace = Append(@, <<"write", st.out.bid>>)]

\* nbuffers = 2 * disks_number if the caller passed 0
BuffersFor(nbuffers, disks_number) ==
    IF nbuffers = 0 THEN 2 * disks_number ELSE nbuffers
\* end.bid() + (end.block_offset() ? 1 : 0)
LastBid(end) == BidOf(end) + (IF BlockOffset(end) # 0 THEN 1 ELSE 0)
\* end - end.block_offset() + block_type::size
LastBlockEnd(end) == end - BlockOffset(end) + VecBlock

\* for ( ; cur != stop; ++cur) { in >> tmp; }
RECURSIVE Consume(_, _, _)
Consume(st, cur, stop) ==
    IF cur = stop THEN st ELSE Consume(Advance(st), cur + 1, stop)

\* for ( ; cur != stop; ++cur) { in >> tmp; functor(tmp); }
RECURSIVE ConsumeApply(_, _, _)
ConsumeApply(st, cur, stop) ==
    IF cur = stop THEN st
    ELSE ConsumeApply(Advance([st EXCEPT !.calls = Append(@, Current(st))]),
                      cur + 1, stop)

\* seeded fault: the functor is applied from the start of the block
ForEachLeadingApplies(st, cur, begin) == ConsumeApply(st, cur, begin)

\* for_each: leave the part of the block before begin untouched
ForEachLeading(st, cur, begin) == Consume(st, cur, begin)

\* stxxl::for_each
for_each_run(st, begin, end, nbuffers, disks_number) ==
    IF begin = end THEN st
    ELSE LET s1 == Flush(st)
             s2 == buf_istream(s1, BidOf(begin), LastBid(end),
                               BuffersFor(nbuffers, disks_number))
             s3 == ForEachLeading(s2, begin - BlockOffset(begin), begin)
             s4 == ConsumeApply(s3, begin, end)
         IN  IF BlockOffset(end) # 0
             THEN Consume(s4, end, LastBlockEnd(end))
             ELSE s4

\* for ( ; cur != stop; ++cur) { in >> tmp; out << tmp; }
RECURSIVE CopyThrough(_, _, _)
CopyThrough(st, cur, stop) ==
    IF cur = stop THEN st
    ELSE CopyThrough(Put(Advance(st), Current(st)), cur + 1, stop)

\* for ( ; cur != stop; ++cur) { in >> tmp; functor(tmp); out << tmp; }
RECURSIVE CopyApply(_, _, _)
CopyApply(st, cur, stop) ==
    IF cur = stop THEN st
    ELSE CopyApply(
             Put(Advance([st EXCEPT !.calls = Append(@, Current(st))]),
                 Current(st) + FunctorAdds),
             cur + 1, stop)

\* seeded fault: the elements after end are read and not written
ForEachMTrailingDropped(st, end, stop) == Consume(st, end, stop)

\* for_each_m: leave the part of the block after end untouched
ForEachMTrailing(st, end, stop) == CopyThrough(st, end, stop)

\* stxxl::for_each_m
for_each_m_run(st, begin, end, nbuffers, disks_number) ==
    IF begin = end THEN st
    ELSE LET s1 == Flush(st)
             nb == BuffersFor(nbuffers, disks_number)
             s2 == buf_ostream(buf_istream(s1, BidOf(begin), LastBid(end),
                                           nb \div 2),
                               BidOf(begin))
             s3 == CopyThrough(s2, begin - BlockOffset(begin), begin)
             s4 == CopyApply(s3, begin, end)
         IN  IF BlockOffset(end) # 0
             THEN ForEachMTrailing(s4, end, LastBlockEnd(end))
             ELSE s4

\* generator()
Generated(st) == GeneratorFirst + Len(st.calls)
Generate(st) == [st EXCEPT !.calls = Append(@, Generated(st))]

\* while (end != begin) { ...; *outstream = generator(); ++begin;
\* ++outstream; } with block_externally_updated() for every block left
RECURSIVE GenerateBlocks(_, _, _, _)
GenerateBlocks(st, begin, end, prev_block) ==
    IF end = begin THEN [st EXCEPT !.ret = prev_block]
    ELSE LET upd == BlockOffset(begin) = 0 /\ prev_block # begin
             s1 == IF upd THEN block_externally_updated(st, BidOf(prev_block))
                   ELSE st
         IN  GenerateBlocks(Put(Generate(s1), Generated(s1)), begin + 1, end,
                            IF upd THEN begin ELSE prev_block)

\* seeded fault: the rest of the block is filled with generator() too
RECURSIVE GenerateRestGenerated(_, _)
GenerateRestGenerated(st, out) ==
    IF BlockOffset(out) = 0 THEN [st EXCEPT !.ret = out]
    ELSE GenerateRestGenerated(Put(Generate(st), Generated(st)), out + 1)

\* while (out.block_offset()) { *outstream = *out; ++out; ++outstream; }
RECURSIVE GenerateRest(_, _)
GenerateRest(st, out) ==
    IF BlockOffset(out) = 0 THEN [st EXCEPT !.ret = out]
    ELSE LET s1 == ReadPage(st, BidOf(out))
         IN  GenerateRest(Put(s1, Deref(s1, out)), out + 1)

\* while (begin.block_offset()) { if (begin == end) return;
\* *begin = generator(); ++begin; }: ret is begin, calls tell of the return
RECURSIVE GenerateLeading(_, _, _)
GenerateLeading(st, begin, end) ==
    IF BlockOffset(begin) = 0 THEN [st EXCEPT !.ret = begin]
    ELSE IF begin = end THEN [st EXCEPT !.ret = -1]
    ELSE GenerateLeading(Assign(Generate(st), begin, Generated(st)),
                         begin + 1, end)

\* stxxl::generate
generate_run(st, begin, end) ==
    LET s1 == GenerateLeading(st, begin, end)
    IN  IF s1.ret = -1 THEN s1
        ELSE LET b1 == s1.ret
                 s2 == buf_ostream(Flush(s1), BidOf(b1))
                 s3 == GenerateBlocks(s2, b1, end, b1)
                 prev_block == s3.ret
                 s4 == GenerateRest(s3, end)
                 out == s4.ret
                 s5 == IF prev_block # out
                       THEN block_externally_updated(s4, BidOf(prev_block))
                       ELSE s4
             IN  Flush(s5)

\* for ( ; cur != end; ++cur) { in >> tmp; if (tmp == value) return cur; }
\* return cur;
RECURSIVE FindIn(_, _, _, _)
FindIn(st, cur, end, value) ==
    IF cur = end THEN [st EXCEPT !.ret = cur]
    ELSE IF Current(st) = value
    THEN [Advance(st) EXCEPT !.ret = cur,
                             !.calls = Append(st.calls, Current(st))]
    ELSE FindIn(Advance([st EXCEPT !.calls = Append(@, Current(st))]),
                cur + 1, end, value)

\* seeded fault: the elements before begin are not skipped
FindLeadingStays(st, cur, begin) == st

\* find: skip the part of the block before begin
FindLeading(st, cur, begin) == Consume(st, cur, begin)

\* stxxl::find
find_run(st, begin, end, value, nbuffers, disks_number) ==
    IF begin = end THEN [st EXCEPT !.ret = end]
    ELSE LET s1 == Flush(st)
             s2 == buf_istream(s1, BidOf(begin), LastBid(end),
                               BuffersFor(nbuffers, disks_number))
             s3 == FindLeading(s2, begin - BlockOffset(begin), begin)
         IN  FindIn(s3, begin, end, value)

\* what the scan algorithms leave alone
ScanFrame == UNCHANGED <<vars, rangevars, twovars>>

\* the vector after a run, and what the run did
Ran(op, st) ==
    /\ scan_op' = op
    /\ scan_pre' = Elements
    /\ v_disk' = st.disk
    /\ v_cache' = st.cache
    /\ v_dirty' = st.dirty
    /\ scan_calls' = st.calls
    /\ scan_trace' = st.trace
    /\ scan_ret' = st.ret
    /\ scan_in' = st.in
    /\ scan_race' = st.race
    /\ UNCHANGED <<it_begin, it_end>>

\* the test fills the vector: v[i] = i % m for all i; the pages in dirty
\* are still in memory, changed; begin and end are iterators into it
vector_fill ==
    /\ scan_op = "idle"
    /\ \E m \in 1..VecSize, dirty \in SUBSET VecBids :
           /\ v_disk' = [b \in VecBids |-> [o \in 0..(VecBlock - 1) |->
                            IF b \in dirty THEN Stale
                            ELSE (b * VecBlock + o) % m]]
           /\ v_cache' = [b \in VecBids |->
                            IF b \in dirty
                            THEN [o \in 0..(VecBlock - 1) |->
                                     (b * VecBlock + o) % m]
                            ELSE NoPage]
           /\ v_dirty' = dirty
    /\ \E b \in 0..VecSize, e \in 0..VecSize :
           b <= e /\ it_begin' = b /\ it_end' = e
    /\ scan_op' = "filled"
    /\ UNCHANGED <<scan_pre, scan_calls, scan_trace, scan_ret, scan_value,
                   scan_in, scan_race>>

for_each ==
    /\ scan_op = "filled"
    /\ UNCHANGED scan_value
    /\ \E nbuffers \in NBuffers, disks_number \in DChoices :
           Ran("for_each",
               for_each_run(Run, it_begin, it_end, nbuffers, disks_number))

for_each_m ==
    /\ scan_op = "filled"
    /\ UNCHANGED scan_value
    /\ \E nbuffers \in NBuffers, disks_number \in DChoices :
           Ran("for_each_m",
               for_each_m_run(Run, it_begin, it_end, nbuffers, disks_number))

generate ==
    /\ scan_op = "filled"
    /\ UNCHANGED scan_value
    /\ Ran("generate", generate_run(Run, it_begin, it_end))

find ==
    /\ scan_op = "filled"
    /\ \E value \in 0..VecBlock, nbuffers \in NBuffers,
          disks_number \in DChoices :
           /\ scan_value' = value
           /\ Ran("find", find_run(Run, it_begin, it_end, value, nbuffers,
                                   disks_number))

InitScan == InitRange

NextScan ==
    \/ vector_fill /\ ScanFrame
    \/ for_each /\ ScanFrame
    \/ for_each_m /\ ScanFrame
    \/ generate /\ ScanFrame
    \/ find /\ ScanFrame

SpecScan == InitScan /\ [][NextScan]_allvars

----------------------------------------------------------------------------
(* Two sequence objects, a and b.  The sequence variables are those of the *)
(* object object, with the pool it points to; that holds the other object,    *)
(* the deque the test drives beside it and, if the two point to different  *)
(* pools, the pool it points to.  The disk and the block manager are one.  *)

\* the pushes of one object, the times the test changes the object, and the
\* swap calls of one run
MaxTwoPush == 5
MaxSwitch == 2
MaxSwap == 2

\* the members swap() exchanges
Members == {"m_size", "m_owns_pool", "m_pool", "m_front_block",
            "m_back_block", "m_front_element", "m_back_element",
            "m_alloc_count", "m_bids", "m_blocks2prefetch"}

ThisPool == [mem |-> mem, w_free |-> w_free, w_busy |-> w_busy,
             p_free |-> p_free, p_busy |-> p_busy]
This ==
    [m_size |-> m_size, m_front_block |-> m_front_block,
     m_back_block |-> m_back_block, m_front_element |-> m_front_element,
     m_back_element |-> m_back_element, m_alloc_count |-> m_alloc_count,
     m_bids |-> m_bids, m_blocks2prefetch |-> m_blocks2prefetch,
     m_owns_pool |-> m_owns_pool, m_pool |-> m_pool, ref |-> ref,
     npush |-> npush, pool |-> NoPool]

ThatAlive == that.m_front_block # NullBlock
OtherOf(o) == IF o = "a" THEN "b" ELSE "a"

\* the pool the other object points to
ThatPool == IF that.m_pool = m_pool THEN ThisPool ELSE that.pool
ThatEnv == [Env EXCEPT !.mem = ThatPool.mem, !.w_free = ThatPool.w_free,
                       !.w_busy = ThatPool.w_busy, !.p_free = ThatPool.p_free,
                       !.p_busy = ThatPool.p_busy]

\* the sequence variables become the members q, the pool variables the pool p
Become(q, p) ==
    /\ m_size' = q.m_size
    /\ m_front_block' = q.m_front_block
    /\ m_back_block' = q.m_back_block
    /\ m_front_element' = q.m_front_element
    /\ m_back_element' = q.m_back_element
    /\ m_alloc_count' = q.m_alloc_count
    /\ m_bids' = q.m_bids
    /\ m_blocks2prefetch' = q.m_blocks2prefetch
    /\ m_owns_pool' = q.m_owns_pool
    /\ m_pool' = q.m_pool
    /\ mem' = p.mem
    /\ w_free' = p.w_free
    /\ w_busy' = p.w_busy
    /\ p_free' = p.p_free
    /\ p_busy' = p.p_busy

\* the test goes over to the other object: nothing is called
Switch ==
    /\ err = "none" /\ NoStream /\ ThatAlive
    /\ nswitch < MaxSwitch
    /\ Become(that, ThatPool)
    /\ ref' = that.ref
    /\ npush' = that.npush
    /\ that' = [This EXCEPT !.pool = IF that.m_pool = m_pool THEN NoPool
                                     ELSE ThisPool]
    /\ object' = OtherOf(object)
    /\ nswitch' = nswitch + 1
    /\ lastOp' = [op |-> "switch", case |-> OtherOf(object), val |-> 0]
    /\ io' = <<>>
    /\ UNCHANGED <<disk, bm_used, strvars, err, nswap, rangevars, scanvars>>

\* sequence(pool) for the other object, on the pool this object points to;
\* the pool has its 2 write blocks, so that init() does not resize it
sequence_pool_ctor(c) ==
    LET e1 == Steal(Env, c)
    IN  /\ err = "none" /\ Alive /\ ~ThatAlive /\ that.npush = 0
        /\ Len(w_free) + Len(w_busy) >= MinWrite
        /\ that' = [NoSequence EXCEPT
                       !.m_front_block = e1.blk,
                       !.m_back_block = e1.blk,
                       !.m_blocks2prefetch =
                           PrefetchAggr(-1, Len(p_free) + Len(p_busy)),
                       !.m_pool = m_pool,
                       !.npush = MaxTwoPush - 1]
        /\ CommitEnv(e1)
        /\ lastOp' = [op |-> "init", case |-> "pool", val |-> 0]
        /\ UNCHANGED <<seqvars, strvars, err, ref, npush, m_pool, object,
                       nswitch, nswap, rangevars, scanvars>>

\* sequence(w_pool_size, p_pool_size, blocks2prefetch) for the other object:
\* a pool of its own, the number 2
sequence_sizes_ctor ==
    /\ err = "none" /\ Alive /\ ~ThatAlive /\ that.npush = 0
    /\ \E w \in {MaxWrite}, p \in PPoolSizes :
           that' = [NoSequence EXCEPT
                       !.m_front_block = w,
                       !.m_back_block = w,
                       !.m_blocks2prefetch = PrefetchAggr(-1, p),
                       !.m_owns_pool = TRUE,
                       !.m_pool = 2,
                       !.npush = MaxTwoPush - 1,
                       !.pool = [mem |-> [b \in Blocks |-> Fresh],
                                 w_free |-> [i \in 1..(w - 1) |-> i],
                                 w_busy |-> <<>>,
                                 p_free |-> [i \in 1..p |-> MaxWrite + i],
                                 p_busy |-> <<>>]]
    /\ lastOp' = [op |-> "init", case |-> "sizes", val |-> 0]
    /\ io' = << <<"steal", 0>> >>
    /\ UNCHANGED <<seqvars, envvars, strvars, err, ref, npush, m_pool, object,
                   nswitch, nswap, rangevars, scanvars>>

\* seeded fault: swap() without std::swap(m_back_element, obj.m_back_element)
SwappedButBackElement(x, y) ==
    [f \in DOMAIN x |-> IF f \in Members \ {"m_back_element"} THEN y[f]
                        ELSE x[f]]

\* the members of x after x.swap(y): those of y
Swapped(x, y) == [f \in DOMAIN x |-> IF f \in Members THEN y[f] ELSE x[f]]

\* sequence::swap, called on this object with the other one.  The deques of
\* the test are exchanged as the caller expects of swap.
swap ==
    LET a == Swapped(This, that)
        b == Swapped(that, This)
    IN  /\ err = "none" /\ NoStream /\ Alive /\ ThatAlive
        /\ nswap < MaxSwap
        /\ Become(a, IF a.m_pool = m_pool THEN ThisPool ELSE that.pool)
        /\ ref' = that.ref
        /\ npush' = that.npush
        /\ that' = [b EXCEPT !.ref = ref, !.npush = npush,
                             !.pool = IF a.m_pool = b.m_pool THEN NoPool
                                      ELSE IF b.m_pool = m_pool THEN ThisPool
                                      ELSE that.pool]
        /\ nswap' = nswap + 1
        /\ lastOp' = [op |-> "swap", case |-> object, val |-> 0]
        /\ io' = <<>>
        /\ UNCHANGED <<disk, bm_used, strvars, err, object, nswitch, rangevars,
                       scanvars>>

\* the push calls left to the deque the object holds
MayPush ==
    IF (object = "a") = (nswap % 2 = 0) THEN npush < MaxTwoPush
    ELSE npush < 2 * MaxTwoPush - 1

\* a, constructed on a pool the test owns: 4 write blocks, 1 prefetch block
InitShared ==
    Constructed(MaxWrite, 1, -1, FALSE,
                [op |-> "init", case |-> "pool", val |-> 0])

\* two sequences on one pool, operated one call at a time: a is filled and
\* may be destroyed, b is constructed at any time of that; then b is filled
\* and emptied
NextShared ==
    \/ \E c \in StealChoices : sequence_pool_ctor(c)
    \/ \E c \in StealChoices : Alive /\ MayPush /\ push_front(c)
    \/ \E c \in StealChoices : Alive /\ MayPush /\ push_back(c)
    \/ Alive /\ object = "b" /\ pop_front
    \/ Alive /\ object = "b" /\ pop_back
    \/ object = "a" /\ sequence_dtor
    \/ object = "a" /\ Switch
    \/ CompleteWrite

SpecShared == InitShared /\ [][NextShared]_allvars

\* a, constructed with a pool of its own
InitSwap ==
    Constructed(ResizeWrite, 1, -1, TRUE,
                [op |-> "init", case |-> "sizes", val |-> 0])

\* b is constructed with its own pool; a is filled with push_back calls,
\* then b with push_front calls; b.swap(a) is called, once or twice in a
\* row; then b is destroyed, or pushed to and popped; then a is streamed,
\* popped and destroyed
NextSwap ==
    \/ npush = 0 /\ sequence_sizes_ctor
    \/ \E c \in StealChoices :
           /\ Alive /\ MayPush /\ object = "b"
           /\ push_front(c)
    \/ \E c \in StealChoices :
           /\ Alive /\ MayPush /\ ThatAlive
           /\ (nswap = 0 => object = "a") /\ nswitch < MaxSwitch
           /\ push_back(c)
    \/ Alive /\ nswap > 0 /\ pop_front
    \/ Alive /\ nswap > 0 /\ object = "b" /\ pop_back
    \/ Alive /\ nswap > 0 /\ lastOp.op = "switch" /\ get_stream
    \/ \E c \in StealChoices : stream_next(c)
    \/ stream_close
    \/ object = "b" /\ (nswap = 0 \/ lastOp.op = "swap") /\ swap
    \/ (nswap = 0) = (object = "a") /\ Switch
    \/ nswap > 0 /\ (object = "b" => lastOp.op = "swap") /\ sequence_dtor
    \/ CompleteWrite

SpecSwap == InitSwap /\ [][NextSwap]_allvars

----------------------------------------------------------------------------

NextSeq ==
    \/ \E c \in StealChoices : npush < MaxMixPush /\ push_front(c)
    \/ \E c \in StealChoices : npush < MaxMixPush /\ push_back(c)
    \/ pop_front
    \/ pop_back
    \/ CompleteWrite
    \/ CompleteRead

SpecSeq == Init /\ [][NextSeq]_vars

\* push_back calls on the new sequence, then pop_front calls
NextBackFront ==
    \/ \E c \in StealChoices :
           lastOp.op \in {"init", "push_back"} /\ push_back(c)
    \/ lastOp.op \in {"push_back", "pop_front"} /\ pop_front
    \/ CompleteWrite
    \/ CompleteRead

SpecBackFront == Init /\ [][NextBackFront]_vars

\* push_front calls on the new sequence, then pop_back calls; no read is
\* ever left in flight here: push_front hints a BID whose write it has just
\* submitted, and pop_back hints from i = 1 on, nothing for blocks2prefetch <= 1
NextFrontBack ==
    \/ \E c \in StealChoices :
           lastOp.op \in {"init", "push_front"} /\ push_front(c)
    \/ lastOp.op \in {"push_front", "pop_back"} /\ pop_back
    \/ CompleteWrite

SpecFrontBack == Init /\ [][NextFrontBack]_vars

Next ==
    \/ \E c \in StealChoices : npush < MaxMixPush /\ push_front(c)
    \/ \E c \in StealChoices : npush < MaxMixPush /\ push_back(c)
    \/ pop_front
    \/ pop_back
    \/ get_stream
    \/ \E offset \in 0..m_size, c \in StealChoices : get_stream_at(offset, c)
    \/ \E c \in StealChoices : stream_next(c)
    \/ get_reverse_stream
    \/ \E c \in StealChoices : reverse_next(c)
    \/ stream_close
    \/ CompleteWrite
    \/ CompleteRead

Spec == Init /\ [][Next]_vars

\* a sequence built by any of its constructors, driven by pushes and pops and
\* destroyed; the requests the pool was left with complete afterwards
NextLife ==
    \/ \E c \in StealChoices :
           Alive /\ npush < MaxLifePush /\ push_front(c)
    \/ \E c \in StealChoices :
           Alive /\ npush < MaxLifePush /\ push_back(c)
    \/ Alive /\ pop_front
    \/ Alive /\ pop_back
    \/ sequence_dtor
    \/ CompleteWrite
    \/ CompleteRead

SpecLife == InitLife /\ [][NextLife]_vars

\* pushes, pops and a stream as in the test, and the calls that break a
\* precondition
NextMisuse ==
    \/ \E c \in StealChoices : npush < MaxMisusePush /\ push_front(c)
    \/ \E c \in StealChoices : npush < MaxMisusePush /\ push_back(c)
    \/ pop_front
    \/ pop_back
    \/ get_stream
    \/ \E c \in StealChoices : stream_next(c)
    \/ stream_close
    \/ front_empty
    \/ back_empty
    \/ pop_front_empty
    \/ pop_back_empty
    \/ stream_deref_empty
    \/ \E c \in StealChoices : stream_next_empty(c)
    \/ CompleteWrite
    \/ CompleteRead

SpecMisuse == Init /\ [][NextMisuse]_vars

\* the sequence is filled, with push_back calls and then push_front calls,
\* up to three blocks written out; then it is popped from both ends and
\* streamed in both directions
NextPrefetch ==
    \/ \E c \in StealChoices :
           lastOp.op \in {"init", "push_back"} /\ push_back(c)
    \/ \E c \in StealChoices :
           lastOp.op \in {"init", "push_back", "push_front"} /\ push_front(c)
    \/ pop_front
    \/ pop_back
    \/ get_stream
    \/ \E c \in StealChoices : stream_next(c)
    \/ get_reverse_stream
    \/ \E c \in StealChoices : reverse_next(c)
    \/ stream_close
    \/ CompleteWrite
    \/ CompleteRead

SpecPrefetch == InitPrefetch /\ [][NextPrefetch]_vars

----------------------------------------------------------------------------
(* What the sequence holds *)

RECURSIVE StoredBlocks(_, _)
StoredBlocks(e, bids) ==
    IF bids = <<>> THEN <<>>
    ELSE Cells([b \in {0} |-> Stored(e, Head(bids))], 0, 0, B - 1)
         \o StoredBlocks(e, Tail(bids))

\* the elements of the sequence, front to back
Content ==
    IF m_front_block = m_back_block
    THEN Cells(mem, m_front_block, m_front_element, m_back_element)
    ELSE Cells(mem, m_front_block, m_front_element, B - 1)
         \o StoredBlocks(Env, m_bids)
         \o Cells(mem, m_back_block, 0, m_back_element)

----------------------------------------------------------------------------
(* Properties *)

PoolBlocks ==
    {w_free[k] : k \in 1..Len(w_free)}
    \cup {w_busy[k].block : k \in 1..Len(w_busy)}
    \cup {p_free[k] : k \in 1..Len(p_free)}
    \cup {p_busy[k].block : k \in 1..Len(p_busy)}

\* the value operator* of the live stream reads
StreamValue == mem[s_current_block][s_current_element]

\* C1: after every push and pop, empty(), size(), front() and back() are
\* those of the reference deque driven by the same calls, no call fails,
\* every push adds exactly 1 to size() and every pop takes exactly 1 off.
C1_MatchesDeque ==
    /\ [](/\ err = "none"
          /\ (m_size = 0) = (ref = <<>>)
          /\ m_size = Len(ref)
          /\ (m_size > 0 => front = Head(ref) /\ back = Last(ref)))
    /\ [][/\ (npush' = npush + 1 => m_size' = m_size + 1)
          /\ (Len(ref') = Len(ref) - 1 => m_size' = m_size - 1)]_vars

\* a pop_back has crossed into a block that was written out, and more than a
\* block is left
C1_Witness ==
    /\ lastOp.op = "pop_back" /\ lastOp.case = "3"
    /\ err = "none" /\ m_size > B /\ back = Last(ref)

\* C2: a stream constructed by get_stream() runs to its end without failing;
\* what it has emitted so far are the first elements of the sequence in
\* order, the value it shows is the next one, and it is empty exactly when
\* all of them are emitted.
C2_ForwardStream ==
    (s_kind = "stream" /\ s_offset = 0) =>
        /\ err = "none"
        /\ emitted = SubSeq(ref, 1, Len(emitted))
        /\ (s_size = 0) = (Len(emitted) = Len(ref))
        /\ (s_size # 0 => StreamValue = ref[Len(emitted) + 1])

\* the values of C2, whenever the stream has not died
ForwardValues ==
    (s_kind = "stream" /\ err = "none") =>
        /\ emitted = SubSeq(ref, s_offset + 1, s_offset + Len(emitted))
        /\ s_size = Len(ref) - s_offset - Len(emitted)
        /\ (s_size # 0 => StreamValue = ref[s_offset + Len(emitted) + 1])

\* C3: a reverse stream runs to its end without failing; what it has emitted
\* so far are the last elements of the sequence, back to front, the value it
\* shows is the next one, and it is empty exactly when all are emitted.
C3_ReverseStream ==
    s_kind = "reverse_stream" =>
        /\ err = "none"
        /\ emitted = SubSeq(Reverse(ref), 1, Len(emitted))
        /\ (s_size = 0) = (Len(emitted) = Len(ref))
        /\ (s_size # 0 => StreamValue = Reverse(ref)[Len(emitted) + 1])

\* the values of C3, whenever the stream has not died
ReverseValues ==
    (s_kind = "reverse_stream" /\ err = "none") =>
        /\ emitted = SubSeq(Reverse(ref), 1, Len(emitted))
        /\ s_size = Len(ref) - Len(emitted)
        /\ (s_size # 0 => StreamValue = Reverse(ref)[Len(emitted) + 1])

\* a step of a stream: its construction, an advance, its destruction, and
\* what the block driver completes while it lives
StreamStep ==
    \/ s_kind # "none"
    \/ s_kind' # "none"
    \/ (lastOp'.op = "get_stream" /\ err' # "none")

\* C4: a step of a stream leaves the sequence as it was: size, the front and
\* back block and their cells, the element positions, the BIDs and what is
\* stored under each, and so the elements the pushes and pops that follow
\* will see; without a stream, the sequence holds the reference deque.
C4_StreamFrame ==
    /\ [][StreamStep =>
            /\ UNCHANGED seqvars
            /\ mem'[m_front_block] = mem[m_front_block]
            /\ mem'[m_back_block] = mem[m_back_block]
            /\ \A k \in 1..Len(m_bids) :
                   Stored(Env, m_bids[k])' = Stored(Env, m_bids[k])
            /\ Content' = Content]_vars
    /\ []((err = "none" /\ s_kind = "none") =>
             (Content = ref /\ m_size = Len(ref)))

\* a forward stream has run from the front block through a written-out block
\* to the end of the back block
C4_Witness ==
    /\ s_kind = "stream" /\ s_size = 0 /\ err = "none"
    /\ Len(emitted) > 2 * B /\ m_bids # <<>>

\* C5: push_back calls on a new sequence followed by pop_front calls: the
\* k-th pop_front finds the k-th pushed value at front(), and after as many
\* pops as pushes the sequence is empty with size() 0; no call fails.
C5_BackFrontRoundTrip ==
    /\ err = "none"
    /\ (lastOp.op = "pop_front" => lastOp.val = npush - Len(ref))
    /\ (ref = <<>> => m_size = 0)
    /\ (m_size = 0 => ref = <<>>)

\* 2B + 1 or more values were pushed and all of them popped
C5_Witness ==
    /\ lastOp.op = "pop_front" /\ npush >= 2 * B + 1 /\ ref = <<>>
    /\ m_size = 0 /\ lastOp.val = npush

\* C6 as stated: push_front calls on a new sequence followed by pop_back
\* calls: the pops find the pushed values in reverse order, so the k-th
\* pop_back of n finds the value pushed as number n - k + 1.
C6_Reversed ==
    lastOp.op = "pop_back" => lastOp.val = Len(ref) + 1

\* C6 amended: push_front calls on a new sequence followed by pop_back calls:
\* the k-th pop_back finds the k-th pushed value at back(), the order of the
\* pushes; no call fails.
C6_FrontBackRoundTrip ==
    /\ err = "none"
    /\ (lastOp.op = "pop_back" => lastOp.val = npush - Len(ref))
    /\ (m_size = 0) = (ref = <<>>)

\* 2B + 1 or more values were pushed at the front and all popped at the back
C6_Witness ==
    /\ lastOp.op = "pop_back" /\ npush >= 2 * B + 1 /\ ref = <<>>
    /\ m_size = 0 /\ lastOp.val = npush

\* C7: a stream constructed at offset k, 0 <= k <= size, is constructed and
\* runs to its end without failing, emits the elements from the k-th on in
\* order and is empty exactly after the last of the size - k.
C7_StreamAtOffset ==
    /\ (lastOp.op = "get_stream" => err = "none")
    /\ (s_kind = "stream" =>
          /\ err = "none"
          /\ emitted = SubSeq(ref, s_offset + 1, s_offset + Len(emitted))
          /\ s_size = Len(ref) - s_offset - Len(emitted)
          /\ (s_size # 0 => StreamValue = ref[s_offset + Len(emitted) + 1]))

\* a push onto a full block while two blocks are resident and no block is
\* written out
FullTwoBlockPush ==
    /\ npush' = npush + 1
    /\ m_front_block # m_back_block
    /\ m_bids = <<>>
    /\ \/ (lastOp'.op = "push_front" /\ m_front_element = 0)
       \/ (lastOp'.op = "push_back" /\ m_back_element = B - 1)

\* a step without any call of the pool or the block manager
NoIO ==
    /\ io' = <<>>
    /\ m_alloc_count' = m_alloc_count
    /\ UNCHANGED <<m_bids, m_front_block, m_back_block, w_free, w_busy, p_free,
                   p_busy, disk, bm_used>>

\* C8 as stated: a push onto a full block, with two blocks resident, no BID
\* and at most 2B elements, makes no call of the pool or the block manager.
C8_NoIOUpTo2B ==
    [][(FullTwoBlockPush /\ m_size <= 2 * B) => NoIO]_vars

\* C8 amended: such a push with fewer than 2B elements makes no call of the
\* pool or the block manager and stores the value; with exactly 2B elements
\* both blocks are full, and the push allocates one BID, enqueues the write
\* of the full block and ends by stealing a block.
C8_NoIOBelow2B ==
    [][/\ (FullTwoBlockPush /\ m_size < 2 * B) =>
            (NoIO /\ err' = "none" /\ m_size' = m_size + 1)
       /\ (FullTwoBlockPush /\ m_size = 2 * B) =>
            /\ Len(io') >= 3
            /\ io'[1][1] = "new_block" /\ io'[2][1] = "write"
            /\ Last(io')[1] = "steal"
            /\ m_alloc_count' = m_alloc_count + 1
            /\ Len(m_bids') = 1]_vars

\* a push has compacted the two blocks in memory
C8_Witness ==
    /\ lastOp.case = "1.5" /\ io = <<>> /\ err = "none"
    /\ m_size = 2 * B /\ m_front_element = 0 /\ m_back_element = B - 1

\* C9: the sequence holds its front block and its back block, one block or
\* two, and neither is inside a pool; its elements are those of the front
\* block, of the blocks stored under the BIDs of bids, and of the back block,
\* and every BID of bids is allocated and listed once.
C9_ResidentBlocks ==
    err = "none" =>
        /\ m_front_block \in Blocks /\ m_back_block \in Blocks
        /\ {m_front_block, m_back_block} \cap PoolBlocks = {}
        /\ (s_kind # "none" /\ s_current_block \notin {m_front_block, m_back_block})
              => s_current_block \notin PoolBlocks
        /\ \A k \in 1..Len(m_bids) : m_bids[k] \in bm_used
        /\ \A j, k \in 1..Len(m_bids) : m_bids[j] = m_bids[k] => j = k
        /\ Content = ref

\* two blocks are resident and two more are on disk
C9_Witness ==
    /\ err = "none" /\ m_front_block # m_back_block /\ Len(m_bids) = 2
    /\ m_size = Len(ref)

\* C10: size is the number of used cells: with two blocks, those of the
\* front block from front_element on, B for each BID, and those of the back
\* block up to back_element; with one block, bids is empty and they are the
\* cells from front_element to back_element.
C10_SizeIsUsedCells ==
    IF m_front_block # m_back_block
    THEN m_size = (B - m_front_element) + Len(m_bids) * B + (m_back_element + 1)
    ELSE m_bids = <<>> /\ m_size = m_back_element - m_front_element + 1

\* two blocks and a BID, both resident blocks partly used
C10_Witness ==
    /\ m_front_block # m_back_block /\ m_bids # <<>>
    /\ m_front_element > 0 /\ m_back_element < B - 1

\* the blocks of the writes in flight
WriteBlocks == {w_busy[k].block : k \in 1..Len(w_busy)}

\* C11: with a BID in bids, the front and the back block differ, neither is
\* the block of a write in flight, the front block holds the elements before
\* the first BID, every BID a full block of B elements in bids order, and the
\* back block the elements after the last; without a BID the sequence has one
\* block with at most B elements or two with at most 2B.
C11_BlockLayout ==
    err = "none" =>
        IF m_bids # <<>>
        THEN /\ m_front_block # m_back_block
             /\ {m_front_block, m_back_block} \cap WriteBlocks = {}
             /\ LET nf == B - m_front_element
                IN  /\ Cells(mem, m_front_block, m_front_element, B - 1)
                           = SubSeq(ref, 1, nf)
                    /\ \A k \in 1..Len(m_bids) :
                           [i \in 1..B |-> Stored(Env, m_bids[k])[i - 1]]
                               = SubSeq(ref, nf + (k - 1) * B + 1, nf + k * B)
                    /\ Cells(mem, m_back_block, 0, m_back_element)
                           = SubSeq(ref, nf + Len(m_bids) * B + 1, Len(ref))
        ELSE \/ (m_front_block = m_back_block /\ m_size <= B)
             \/ (m_front_block # m_back_block /\ m_size <= 2 * B)

\* two BIDs lie between a front and a back block that are both partly used
C11_Witness ==
    /\ err = "none" /\ Len(m_bids) = 2 /\ m_bids[1] # m_bids[2]
    /\ m_front_element > 0 /\ m_back_element < B - 1
    /\ Len(ref) = 2 * B + 2

\* C12 as stated: whenever the sequence is empty, back_element is the
\* position before the start of the block and front_element its start.
C12_EmptyAtBegin ==
    m_size = 0 => (m_back_element = BeforeBegin /\ m_front_element = 0)

\* C12 amended: whenever the sequence is empty it has one block and no BID,
\* and back_element is the position before front_element, wherever in the
\* block that is; the two are at begin() - 1 and begin() after construction
\* and after a pop that takes the last element off the end of the block it
\* runs towards (Case 1).
C12_EmptyBackBeforeFront ==
    (m_size = 0 /\ err = "none") =>
        /\ m_front_block = m_back_block /\ m_bids = <<>>
        /\ m_front_element \in 0..(B - 1)
        /\ m_back_element = m_front_element - 1
        /\ ((lastOp.op = "init"
             \/ (lastOp.op \in {"pop_front", "pop_back"} /\ lastOp.case = "1"))
              => (m_back_element = BeforeBegin /\ m_front_element = 0))

\* the sequence was emptied by a pop in the middle of its block
C12_Witness ==
    /\ m_size = 0 /\ err = "none" /\ lastOp.op \in {"pop_front", "pop_back"}
    /\ lastOp.case = "4" /\ m_front_element > 0
    /\ m_back_element = m_front_element - 1


\* the positions in the calls evs of the calls named op
CallsOf(evs, op) == {k \in 1..Len(evs) : evs[k][1] = op}

\* a step of the sequence: a push, a pop or the destructor
SeqStep == npush' # npush \/ ref' # ref \/ (Alive /\ ~Alive')

\* every delete_block of a step releases a BID that was allocated, no BID
\* twice, and no call of the step reads, hints or writes a BID the step has
\* released or that was never allocated
ReleasedOnce ==
    /\ \A k \in CallsOf(io', "delete_block") :
           /\ io'[k][2] \in bm_used /\ io'[k][2] \notin bm_used'
           /\ \A j \in CallsOf(io', "delete_block") :
                  io'[j][2] = io'[k][2] => j = k
           /\ \A j \in (k + 1)..Len(io') : io'[j][2] # io'[k][2]
    /\ \A k \in CallsOf(io', "read") \cup CallsOf(io', "hint")
                \cup CallsOf(io', "write") :
           io'[k][2] \in bm_used \cup bm_used'
    /\ bm_used \ bm_used' = {io'[k][2] : k \in CallsOf(io', "delete_block")}

\* the allocated BIDs are those of bids while the sequence lives, none after
AllocatedAreBids ==
    /\ (Alive /\ err = "none") =>
           /\ bm_used = {m_bids[k] : k \in 1..Len(m_bids)}
           /\ Cardinality(bm_used) = Len(m_bids)
    /\ ~Alive => bm_used = {}

\* C13: every BID a push allocates is released exactly once, by the pop that
\* consumes it (Case 3) or by the destructor, and never twice; no call of the
\* sequence reads, hints or writes a BID after its release; the allocated
\* BIDs are those of bids, and none is allocated after the destructor.
C13_BidLifecycle == []AllocatedAreBids /\ [][SeqStep => ReleasedOnce]_vars

\* the destructor has released two BIDs at once
C13_Witness ==
    /\ ~Alive /\ lastOp.op = "~sequence" /\ lastOp.val = 2
    /\ m_alloc_count = 2 /\ bm_used = {}
    /\ Cardinality(CallsOf(io, "delete_block")) = 2

\* the state a constructor leaves; lastOp.val keeps the sizes the pool had
\* before init(), and init() has stolen one block of the write pool
AtInit == lastOp.op = "init" /\ lastOp.case \in {"D", "sizes", "pool"}
size_write_at_init == Len(w_free) + Len(w_busy) + 1
size_prefetch_at_init == Len(p_free) + Len(p_busy)

\* C15: after each of the three constructors the write pool has at least 2
\* blocks: a write pool below 2 was resized to exactly 3, one of 2 or more
\* is unchanged, and the prefetch pool is unchanged, also when it is empty.
C15_WritePoolAtLeast2 ==
    AtInit =>
        /\ size_write_at_init >= 2
        /\ (lastOp.val.w < 2 => size_write_at_init = 3)
        /\ (lastOp.val.w >= 2 => size_write_at_init = lastOp.val.w)
        /\ size_prefetch_at_init = lastOp.val.p
        /\ err = "none"

\* an external pool with one write block and no prefetch block was resized
C15_Witness ==
    /\ AtInit /\ lastOp.case = "pool" /\ ~m_owns_pool
    /\ lastOp.val.w = 1 /\ lastOp.val.p = 0
    /\ size_write_at_init = 3 /\ p_free = <<>>

\* C16 as stated: sequence(D) creates an own pool with a write pool of D
\* blocks (at least 2 after init) and a prefetch pool of D + 2 blocks.
C16_DefaultPoolAsStated ==
    (AtInit /\ lastOp.case = "D") =>
        /\ m_owns_pool
        /\ size_write_at_init = SizeWriteAfterInit(lastOp.val.d)
        /\ size_prefetch_at_init = lastOp.val.d + 2

\* C16: sequence(D) creates an own pool with a write pool of D + 2 blocks
\* and a prefetch pool of D blocks, and prefetches D blocks.
C16_DefaultPool ==
    (AtInit /\ lastOp.case = "D") =>
        /\ m_owns_pool
        /\ size_write_at_init = lastOp.val.d + 2
        /\ size_prefetch_at_init = lastOp.val.d
        /\ m_blocks2prefetch = lastOp.val.d

\* sequence(2): a write pool of 4 blocks, one of them stolen, and 2 prefetch
\* blocks
C16_Witness ==
    /\ AtInit /\ lastOp.case = "D" /\ lastOp.val.d = 2
    /\ Len(w_free) = 3 /\ Len(p_free) = 2 /\ m_owns_pool

\* C17: every write the sequence enqueued has completed before its BID is
\* handed back to the allocator, by a pop or by the destructor, with an own
\* pool or an external one: no write in flight is for a BID that is not
\* allocated.
C17_WritesDoneBeforeRelease ==
    \A k \in 1..Len(w_busy) : w_busy[k].bid \in bm_used

\* the writes are done before the release in the pops, and in the destructor
\* of a sequence that owns its pool, which deletes the pool first
C17_OwnedPoolWaits ==
    (Alive \/ lastOp.case = "owned") =>
        /\ \A k \in 1..Len(w_busy) : w_busy[k].bid \in bm_used
        /\ (~Alive => (w_busy = <<>> /\ w_free = <<>> /\ p_busy = <<>>
                          /\ p_free = <<>>))

\* a call that breaks a precondition has ended
MisuseStep == err = "none" /\ lastOp'.case \in {"assert", "ndebug"}

\* C14: front, back, pop_front or pop_back on an empty sequence, and * or ++
\* on an exhausted stream, end in a failed assertion; no value is returned
\* and size, element pointers, bids and pool contents stay as they were.
C14_MisuseAborts ==
    [][MisuseStep =>
          /\ err' = "assert"
          /\ lastOp'.case = "assert"
          /\ UNCHANGED <<seqvars, strvars, envvars>>]_vars

\* in a build with assertions every such call aborts and changes nothing
C14_AssertBuildAborts ==
    [][(MisuseStep /\ lastOp'.case = "assert") =>
          /\ err' = "assert"
          /\ UNCHANGED <<seqvars, strvars, envvars>>]_vars

\* the blocks the sequence and its stream hold
HeldBlocks ==
    ({m_front_block, m_back_block}
        \cup (IF s_kind = "none" THEN {} ELSE {s_current_block}))
    \ {NullBlock}

\* a pop takes the element of the reference deque at its end
PopsInDequeOrder ==
    Len(ref') = Len(ref) - 1 =>
        /\ lastOp'.op = "pop_front" => (lastOp'.val = Head(ref) /\ ref' = Tail(ref))
        /\ lastOp'.op = "pop_back" => (lastOp'.val = Last(ref) /\ ref' = Front(ref))

\* C18: with one prefetch block and blocks2prefetch = 4 every push, pop and
\* stream operation returns - none waits for a request that is never
\* submitted or dies - the elements kept are those pushed and not yet
\* popped, and every pop returns the element at its end of the deque.
C18_DeepPrefetchTerminates ==
    /\ [](err = "none" /\ Content = ref /\ m_size = Len(ref))
    /\ [][PopsInDequeOrder]_vars

\* the same with the operations that die left aside: the data is right in
\* every state, and with a write pool of three blocks no operation dies
C18_DataRecovered ==
    /\ [](err = "none" => (Content = ref /\ m_size = Len(ref)))
    /\ [](Cardinality(PoolBlocks \cup HeldBlocks) >= ResizeWrite + 1
              => err = "none")
    /\ [][PopsInDequeOrder]_vars

\* a pop_front has issued more hints than the prefetch pool has blocks
C18_MoreHintsThanBlocks ==
    /\ lastOp.op = "pop_front" /\ lastOp.case = "3" /\ err = "none"
    /\ Cardinality(CallsOf(io, "hint")) >= 2
    /\ Len(p_free) + Len(p_busy) = 1

\* what the caller observes of the sequence and of its stream, as a function
\* of the calls made so far alone: neither blocks2prefetch, nor the size of
\* the prefetch pool, nor what the block driver has completed enters
ObservedIsHistory ==
    /\ m_size = Len(ref)
    /\ (m_size = 0) = (ref = <<>>)
    /\ (m_size > 0 => (front = Head(ref) /\ back = Last(ref)))
    /\ ForwardValues
    /\ ReverseValues

\* the prefetch pool keeps its blocks, and the write pool keeps those the
\* sequence and its stream do not hold: a hint or a read moves a block from
\* one to the other only in exchange for another
PoolsKeepSize ==
    /\ Len(p_free') + Len(p_busy') = Len(p_free) + Len(p_busy)
    /\ Len(w_free') + Len(w_busy') + Cardinality(HeldBlocks')
           = Len(w_free) + Len(w_busy) + Cardinality(HeldBlocks)

\* an operation fails only in a steal from a write pool that has no block
FailsOnlyOnEmptyWritePool ==
    (err = "none" /\ err' # "none") =>
        /\ err' = "PoolExhaustion"
        /\ w_free = <<>> /\ w_busy = <<>>
        /\ UNCHANGED <<seqvars, strvars>>

\* C19: prefetching is advisory.  For every blocks2prefetch, every size of
\* the prefetch pool and every order in which hinted reads complete, or are
\* dropped, front, back, size, empty and the stream output are those the
\* calls made so far determine; whether a call fails depends on the write
\* pool alone, which no hint and no read makes smaller or larger.
C19_PrefetchAdvisory ==
    /\ [](err = "none" => ObservedIsHistory)
    /\ [][(err = "none" /\ err' = "none") => PoolsKeepSize]_vars
    /\ [][FailsOnlyOnEmptyWritePool]_vars

\* a pop_front has taken the block of a hinted read in exchange for its own
\* and has hinted the next BID
C19_Witness ==
    /\ lastOp.op = "pop_front" /\ lastOp.case = "3" /\ err = "none"
    /\ m_front_block = MaxWrite + 1
    /\ CallsOf(io, "hint") # {}
    /\ m_size > 0 /\ front = Head(ref)

\* a pop_front has read a block in place, with no prefetch block to hint
\* the next BID with
C19_HintDropped ==
    /\ lastOp.op = "pop_front" /\ lastOp.case = "3" /\ err = "none"
    /\ CallsOf(io, "hint") # {}
    /\ p_free = <<>> /\ p_busy = <<>>
    /\ m_size > 0 /\ front = Head(ref)

\* the B elements of block blk
BlockOf(m, blk) == Cells(m, blk, 0, B - 1)

\* the B elements the block held that was passed to write(block, bid): those
\* of the block of the write in flight, or those on disk once it completed
Written(bid) == [i \in 1..B |-> Stored(Env, bid)[i - 1]]

\* the block a pop or a stream has obtained for a BID holds what was written
\* to that BID, the B elements of the deque that come next at its end
ObtainedIsWritten ==
    /\ (lastOp'.op = "pop_front" /\ lastOp'.case = "3" /\ err' = "none"
            /\ Len(ref') = Len(ref) - 1)
         => /\ BlockOf(mem', m_front_block') = Written(Head(m_bids))
            /\ BlockOf(mem', m_front_block') = SubSeq(ref', 1, B)
    /\ (lastOp'.op = "pop_back" /\ lastOp'.case = "3" /\ err' = "none"
            /\ Len(ref') = Len(ref) - 1)
         => /\ BlockOf(mem', m_back_block') = Written(Last(m_bids))
            /\ BlockOf(mem', m_back_block')
                   = SubSeq(ref', Len(ref') - B + 1, Len(ref'))
    /\ (lastOp'.op = "stream_next" /\ lastOp'.case \in {"steal", "fetch"}
            /\ err' = "none" /\ Len(emitted') = Len(emitted) + 1)
         => /\ BlockOf(mem', s_current_block') = Written(m_bids[s_next_bid])
            /\ BlockOf(mem', s_current_block')
                   = SubSeq(ref, s_offset + Len(emitted') + 1,
                            s_offset + Len(emitted') + B)
    /\ (lastOp'.op = "reverse_next" /\ lastOp'.case \in {"steal", "fetch"}
            /\ err' = "none" /\ Len(emitted') = Len(emitted) + 1)
         => /\ BlockOf(mem', s_current_block') = Written(m_bids[s_next_bid])
            /\ BlockOf(mem', s_current_block')
                   = SubSeq(ref, Len(ref) - Len(emitted') - B + 1,
                            Len(ref) - Len(emitted'))

\* a prefetched block holds what was written to its BID
PrefetchedIsWritten ==
    \A k \in 1..Len(p_busy) :
        (p_busy[k].done /\ p_busy[k].bid \in bm_used) =>
            BlockOf(mem, p_busy[k].block) = Written(p_busy[k].bid)

\* C20: in whatever order the writes and the hinted reads in flight
\* complete, the block pop_front, pop_back or a stream obtains for a BID
\* holds exactly the B elements of the block that was passed to write for
\* that BID, also when the hint or the read is issued while the write is
\* still in flight.
C20_ReadsWhatWasWritten ==
    /\ [](err = "none" => PrefetchedIsWritten)
    /\ [][ObtainedIsWritten]_vars

\* a pop_back has read a BID whose write was still in flight: it has waited
\* for the write and taken over its block
C20_Witness ==
    /\ lastOp.op = "pop_back" /\ lastOp.case = "3" /\ err = "none"
    /\ Len(io) >= 2 /\ io[1][1] = "wait" /\ io[2] = <<"read", io[1][2]>>
    /\ BlockOf(mem, m_back_block) = SubSeq(ref, Len(ref) - B + 1, Len(ref))

\* a push has hinted the BID it has just written: the hint has waited for the
\* write and keeps the written block as the prefetched one
C20_HintByPush ==
    /\ lastOp.op \in {"push_front", "push_back"} /\ lastOp.case = "2"
    /\ err = "none"
    /\ \E k \in 1..Len(io) : io[k][1] = "wait"
    /\ \E k \in 1..Len(p_busy) : p_busy[k].done /\ p_busy[k].bid \in bm_used

\* the number of blocks: those in the pools, free, of a write in flight or
\* of a hinted read, and those the sequence and its stream hold
BlockCount ==
    Len(w_free) + Len(w_busy) + Len(p_free) + Len(p_busy)
        + Cardinality(HeldBlocks)

\* the block the stream has stolen, if it has
StreamScratch ==
    IF s_kind = "none" THEN {}
    ELSE {s_current_block} \ {m_front_block, m_back_block, NullBlock}

\* C23: blocks are conserved.  The blocks in the pools, the one or two of
\* the sequence and the at most one scratch block of a live stream are
\* pairwise different and as many as the pools had at construction, in every
\* step; a stream holds at most one block of its own, and after its
\* destructor, wherever the traversal stood, only the sequence holds blocks.
C23_BlocksConserved ==
    /\ [](/\ Cardinality(PoolBlocks \cup HeldBlocks) = BlockCount
          /\ Cardinality(StreamScratch) <= 1
          /\ Cardinality({m_front_block, m_back_block}) \in {1, 2}
          /\ (lastOp.op = "init" => BlockCount = Len(w_free) + Len(p_free) + 1)
          /\ ((s_kind = "none" /\ err = "none")
                 => HeldBlocks = {m_front_block, m_back_block}))
    /\ [][BlockCount' = BlockCount]_vars

\* a stream that had stolen a block was destroyed before its end, and the
\* block is free again
C23_Witness ==
    /\ lastOp.op = "stream_close" /\ err = "none"
    /\ io = << <<"add", 0>> >>
    /\ Last(w_free) \notin {m_front_block, m_back_block}
    /\ m_bids # <<>>

\* a push_front, a push_back
PushFrontStep == npush' = npush + 1 /\ lastOp'.op = "push_front"
PushBackStep == npush' = npush + 1 /\ lastOp'.op = "push_back"

\* the step allocates a BID or enqueues a write
WritesOut ==
    \/ CallsOf(io', "new_block") # {}
    \/ CallsOf(io', "write") # {}
    \/ bm_used' # bm_used
    \/ m_bids' # m_bids

\* what is stored under bid after the step
StoredAfter(bid) ==
    LET ws == {k \in 1..Len(w_busy') : w_busy'[k].bid = bid}
    IN  IF ws # {} THEN mem'[w_busy'[MaxOf(ws)].block] ELSE disk'[bid]

\* the step allocates one BID, puts it at the given end of bids and enqueues
\* the write of the block blk, which holds the B elements els, to it
WritesBlockOut(blk, els, bids) ==
    /\ Cardinality(CallsOf(io', "new_block")) = 1
    /\ Cardinality(CallsOf(io', "write")) = 1
    /\ io'[1][1] = "new_block" /\ io'[2] = <<"write", io'[1][2]>>
    /\ bm_used' = bm_used \cup {io'[1][2]} /\ io'[1][2] \notin bm_used
    /\ m_bids' = bids[io'[1][2]]
    /\ BlockOf(mem, blk) = els
    /\ [i \in 1..B |-> StoredAfter(io'[1][2])[i - 1]] = els

\* the step only steals a block for one end and keeps the old block, as it
\* is, for the other
OnlySteals(new, other, old) ==
    /\ io' = << <<"steal", 0>> >>
    /\ m_bids' = <<>> /\ bm_used' = bm_used
    /\ m_alloc_count' = m_alloc_count
    /\ new # old /\ other = old
    /\ mem'[old] = mem[old]

\* C29: a push allocates a BID and enqueues a write only if its block is
\* full, the front and the back block differ and size >= 2B, and then it
\* writes out that full block; a push that finds its block full while the
\* front block is the back block only steals a block for its end, keeps the
\* old block with its content as the other end and allocates no BID.
C29_WriteOnlyWhenFull ==
    [][/\ (PushFrontStep /\ err' = "none") =>
            /\ WritesOut =>
                  /\ m_front_element = 0 /\ m_front_block # m_back_block
                  /\ m_size >= 2 * B
                  /\ WritesBlockOut(m_front_block, SubSeq(ref, 1, B),
                                    [b \in BIDs |-> <<b>> \o m_bids])
            /\ (m_front_element = 0 /\ m_size > 0
                   /\ m_front_block = m_back_block) =>
                  OnlySteals(m_front_block', m_back_block', m_front_block)
       /\ (PushBackStep /\ err' = "none") =>
            /\ WritesOut =>
                  /\ m_back_element = B - 1 /\ m_front_block # m_back_block
                  /\ m_size >= 2 * B
                  /\ WritesBlockOut(m_back_block,
                                    SubSeq(ref, Len(ref) - B + 1, Len(ref)),
                                    [b \in BIDs |-> Append(m_bids, b)])
            /\ (m_back_element = B - 1 /\ m_front_block = m_back_block) =>
                  OnlySteals(m_back_block', m_front_block', m_back_block)]_vars

\* a push_back has found the only block full and has stolen a second one
C29_Witness ==
    /\ lastOp.op = "push_back" /\ lastOp.case = "1" /\ err = "none"
    /\ m_front_block # m_back_block /\ m_bids = <<>> /\ bm_used = {}
    /\ m_front_element = 0 /\ m_back_element = 0 /\ m_size = B + 1

\* C30: the compaction of a push (two blocks, no BID, size < 2B, the block
\* of the push full) keeps the order of all elements and puts the pushed
\* value at its end, calls neither the pool nor the block manager, and
\* closes the gap at the other end: after push_front the back block is used
\* up to its last cell, after push_back the front block from its first.
C30_Compaction ==
    [][(FullTwoBlockPush /\ m_size < 2 * B) =>
          /\ lastOp'.case = "1.5" /\ err' = "none"
          /\ NoIO
          /\ m_size' = m_size + 1
          /\ Content' = ref'
          /\ lastOp'.op = "push_front" =>
                /\ ref' = <<lastOp'.val>> \o ref
                /\ m_back_element' = B - 1
                /\ m_front_element' = 2 * B - m_size'
                /\ mem'[m_front_block][m_front_element'] = lastOp'.val
          /\ lastOp'.op = "push_back" =>
                /\ ref' = Append(ref, lastOp'.val)
                /\ m_front_element' = 0
                /\ m_back_element' = m_size' - B - 1
                /\ mem'[m_back_block][m_back_element'] = lastOp'.val]_vars

\* a push_back has moved the elements to the start of the front block
C30_Witness ==
    /\ lastOp.op = "push_back" /\ lastOp.case = "1.5" /\ err = "none"
    /\ io = <<>> /\ m_bids = <<>> /\ m_front_block # m_back_block
    /\ m_front_element = 0 /\ m_back_element = m_size - B - 1
    /\ back = Last(ref) /\ back = lastOp.val /\ Content = ref

----------------------------------------------------------------------------
(* stream2range *)

\* the elements the stream held when the loop began
Remaining == SubSeq(values, range_from, Len(values))
LoopBegun == range_pc \in {"loop", "done", "undefined"}

\* C28 as stated: the loop over stream::range(s) visits every remaining
\* element of s once, in stream order, and stops after the last one: the
\* range under the loop equals end() exactly when the stream is exhausted;
\* for an already empty stream the body is not run and the stream is not
\* dereferenced.
C28_RangeVisitsRemaining ==
    /\ range_pc = "loop" => ((m_stream = "nullptr") <=> stream_empty(m_current))
    /\ range_pc = "done" => visited = Remaining
    /\ (LoopBegun /\ Remaining = <<>>) => (visited = <<>> /\ range_err = "none")

\* the loop over a stream that is not empty when the loop begins
C28_NonEmptyStream ==
    (LoopBegun /\ Remaining # <<>>) =>
        /\ range_err = "none"
        /\ range_pc = "loop" =>
              ((m_stream = "nullptr") <=> stream_empty(m_current))
        /\ range_pc = "loop" =>
              visited = SubSeq(values, range_from, m_current - 1)
        /\ range_pc = "done" => visited = Remaining

\* the loop over an empty stream has run its body
C28_EmptyStreamDereferenced ==
    /\ range_pc = "undefined" /\ range_err = "undefined"
    /\ Remaining = <<>> /\ Len(visited) = 1 /\ m_stream = "m_input"

----------------------------------------------------------------------------
(* for_each, for_each_m, generate, find *)

ScanStep(op) == scan_op = "filled" /\ scan_op' = op
\* the elements of [begin, end), and the first and last block of the range
InRange == SubSeq(Elements, it_begin + 1, it_end)
Covered == BidOf(it_begin)..(LastBid(it_end) - 1)
\* the blocks read through the input stream and written through the output
\* stream, in the order of the calls
BlocksOf(trace, call) ==
    LET F[k \in 0..Len(trace)] ==
            IF k = 0 THEN <<>>
            ELSE IF trace[k][1] = call THEN Append(F[k - 1], trace[k][2])
            ELSE F[k - 1]
    IN  F[Len(trace)]
Ascending(lo, hi) == [k \in 1..(hi - lo + 1) |-> lo + k - 1]
\* the place of the call in the trace
PlaceOf(trace, call, b) ==
    CHOOSE k \in 1..Len(trace) : trace[k] = <<call, b>>

\* C24: for_each(begin, end, f) calls f once with the value of every element
\* of [begin, end), in forward order, and with no other element; the blocks
\* from that of begin to that of end are read in order and every element of
\* them is taken from the input stream; nothing is written through an output
\* stream and no element changes; for begin == end nothing is read or
\* written.
C24_ForEach ==
    [][ScanStep("for_each") =>
          /\ scan_calls' = InRange
          /\ Elements' = Elements
          /\ BlocksOf(scan_trace', "write") = <<>>
          /\ ~scan_race'
          /\ it_begin = it_end =>
                /\ scan_trace' = <<>>
                /\ UNCHANGED <<v_disk, v_cache, v_dirty>>
          /\ it_begin # it_end =>
                /\ scan_trace'[1][1] = "flush"
                /\ BlocksOf(scan_trace', "read")
                       = Ascending(BidOf(it_begin), LastBid(it_end) - 1)
                /\ scan_in'.taken = VecBlock * Cardinality(Covered)
                /\ scan_in'.taken >= Len(scan_calls')]_allvars

\* for_each has run over a range that begins and ends inside of blocks, with
\* a whole block between them
C24_Witness ==
    /\ scan_op = "for_each"
    /\ BlockOffset(it_begin) # 0 /\ BlockOffset(it_end) # 0
    /\ BidOf(it_end) = BidOf(it_begin) + 2
    /\ Len(scan_calls) = it_end - it_begin
    /\ scan_in.taken > Len(scan_calls) + 1
    /\ Elements = scan_pre

\* C25: after for_each_m(begin, end, f) every element of [begin, end) holds
\* what f made of its previous value, f was called once for each of them in
\* forward order, and every other element holds its previous value; every
\* block of the range is written once, whole, after it was read, and no
\* other block is written.
C25_ForEachM ==
    [][ScanStep("for_each_m") =>
          /\ scan_calls' = InRange
          /\ Elements' = [i \in 1..VecSize |->
                            IF it_begin < i /\ i <= it_end
                            THEN Elements[i] + FunctorAdds
                            ELSE Elements[i]]
          /\ ~scan_race'
          /\ it_begin = it_end =>
                /\ scan_trace' = <<>>
                /\ UNCHANGED <<v_disk, v_cache, v_dirty>>
          /\ it_begin # it_end =>
                /\ BlocksOf(scan_trace', "write")
                       = Ascending(BidOf(it_begin), LastBid(it_end) - 1)
                /\ BlocksOf(scan_trace', "read")
                       = Ascending(BidOf(it_begin), LastBid(it_end) - 1)
                /\ \A b \in Covered :
                       PlaceOf(scan_trace', "read", b)
                           < PlaceOf(scan_trace', "write", b)
                /\ scan_in'.taken = VecBlock * Cardinality(Covered)]_allvars

\* for_each_m has run over a range that begins and ends inside of blocks:
\* the neighbours in the first and the last block kept their values
C25_Witness ==
    /\ scan_op = "for_each_m"
    /\ BlockOffset(it_begin) # 0 /\ BlockOffset(it_end) # 0
    /\ BidOf(it_end) > BidOf(it_begin)
    /\ Elements[it_begin] = scan_pre[it_begin]
    /\ Elements[it_end + 1] = scan_pre[it_end + 1]
    /\ Elements[it_begin + 1] = scan_pre[it_begin + 1] + FunctorAdds
    /\ Elements[it_end] = scan_pre[it_end] + FunctorAdds
    /\ Len(BlocksOf(scan_trace, "write")) = BidOf(it_end) - BidOf(it_begin) + 1

\* C26: generate(begin, end, g) calls g end - begin times and element
\* begin + i holds the i-th result, whether begin and end are at the start of
\* a block or not and whether they are in one block or not; every other
\* element keeps its value: reading the vector back against the same
\* generator sequence agrees element by element.
C26_Generate ==
    [][ScanStep("generate") =>
          /\ scan_calls' = [i \in 1..(it_end - it_begin) |->
                               GeneratorFirst + i - 1]
          /\ Elements' = [i \in 1..VecSize |->
                            IF it_begin < i /\ i <= it_end
                            THEN GeneratorFirst + (i - 1 - it_begin)
                            ELSE Elements[i]]
          /\ SubSeq(Elements', it_begin + 1, it_end) = scan_calls'
          /\ ~scan_race']_allvars

\* generate has run over a range that begins and ends inside of blocks, with
\* a whole block between them
C26_Witness ==
    /\ scan_op = "generate"
    /\ BlockOffset(it_begin) # 0 /\ BlockOffset(it_end) # 0
    /\ BidOf(it_end) = BidOf(it_begin) + 2
    /\ Len(scan_calls) = it_end - it_begin
    /\ Elements[it_begin + 1] = GeneratorFirst
    /\ Elements[it_end] = Last(scan_calls)
    /\ Elements[it_end + 1] = scan_pre[it_end + 1]
    /\ Len(BlocksOf(scan_trace, "write")) = 2

\* generate has run over a range inside of one block
C26_WitnessOneBlock ==
    /\ scan_op = "generate"
    /\ BlockOffset(it_begin) # 0 /\ BlockOffset(it_end) # 0
    /\ BidOf(it_end) = BidOf(it_begin) /\ it_begin < it_end
    /\ Elements[it_begin + 1] = GeneratorFirst

\* the first position of [begin, end) that holds value, or end
FirstOf(els, begin, end, value) ==
    LET hits == {i \in begin..(end - 1) : els[i + 1] = value}
    IN  IF hits = {} THEN end
        ELSE CHOOSE i \in hits : \A j \in hits : i <= j

\* C27: find(begin, end, value) returns the first position i of [begin, end)
\* with *i == value, and end if there is none, also for begin == end; the
\* elements before begin in the first block are skipped and not compared:
\* the elements compared are those from begin up to the one returned.
C27_Find ==
    [][ScanStep("find") =>
          LET first == FirstOf(Elements, it_begin, it_end, scan_value')
          IN  /\ scan_ret' = first
              /\ scan_calls' = SubSeq(Elements, it_begin + 1,
                                      IF first = it_end THEN it_end
                                      ELSE first + 1)
              /\ Elements' = Elements
              /\ ~scan_race'
              /\ it_begin # it_end =>
                    scan_in'.taken = BlockOffset(it_begin) + Len(scan_calls')
              /\ it_begin = it_end => scan_trace' = <<>>]_allvars

\* find has returned a position behind begin, and the value is also in the
\* first block before begin
C27_Witness ==
    /\ scan_op = "find"
    /\ BlockOffset(it_begin) # 0
    /\ it_begin < scan_ret /\ scan_ret < it_end
    /\ Elements[scan_ret + 1] = scan_value
    /\ \E i \in (it_begin - BlockOffset(it_begin))..(it_begin - 1) :
           Elements[i + 1] = scan_value

----------------------------------------------------------------------------
(* Two sequences *)

\* the elements of the sequence with the members q, its pool and disk in e
ContentOf(q, e) ==
    IF q.m_front_block = q.m_back_block
    THEN Cells(e.mem, q.m_front_block, q.m_front_element, q.m_back_element)
    ELSE Cells(e.mem, q.m_front_block, q.m_front_element, B - 1)
         \o StoredBlocks(e, q.m_bids)
         \o Cells(e.mem, q.m_back_block, 0, q.m_back_element)
ThatContent == ContentOf(that, ThatEnv)

\* each of the two objects holds the elements of its deque
BothHoldTheirDeque ==
    /\ Alive => (Content = ref /\ m_size = Len(ref))
    /\ ThatAlive => (ThatContent = that.ref /\ that.m_size = Len(that.ref))

\* an object was destroyed
Destroyed(q) == q.m_front_block = NullBlock /\ q.npush # 0

\* C21 as stated: two sequences on one shared pool, operated one call at a
\* time, are two independent deques: each holds the elements of its own
\* deque whatever was called on the other, its destruction and the reuse of
\* the BIDs it released included.
C21_Independent == err = "none" => BothHoldTheirDeque

\* as long as neither of the two was destroyed they are independent
C21_IndependentWhileBothLive ==
    (err = "none" /\ ~Destroyed(This) /\ ~Destroyed(that)) => BothHoldTheirDeque

\* b has read, for a BID that a had released, the block a had written there
C21_StaleBlockRead ==
    /\ object = "b" /\ Destroyed(that)
    /\ lastOp.op = "pop_front" /\ lastOp.case = "3"
    /\ err = "none" /\ Content # ref

\* the BIDs of a sequence
BidsOf(bids) == {bids[k] : k \in 1..Len(bids)}

\* a.swap(b) has exchanged every member of the two objects, and with the
\* members the pool each points to and the elements each holds; no block is
\* read, written, allocated or released
SwapExchanges ==
    nswap' = nswap + 1 =>
        /\ \A f \in Members : This'[f] = that[f] /\ that'[f] = This[f]
        /\ ThisPool' = ThatPool /\ ThatPool' = ThisPool
        /\ Content' = ThatContent /\ ThatContent' = Content
        /\ m_size' = Len(ThatContent) /\ that'.m_size = Len(Content)
        /\ ThatContent # <<>> =>
              (front' = Head(ThatContent) /\ back' = Last(ThatContent))
        /\ disk' = disk /\ bm_used' = bm_used /\ io' = <<>>

\* the deque the push_back calls 1, 2, .. build, and the one the push_front
\* calls MaxTwoPush, MaxTwoPush + 1, .. build
PushedBack(n) == [i \in 1..n |-> i]
PushedFront(n) == [i \in 1..n |-> MaxTwoPush + n - i]

\* right after one swap() the object b holds what was pushed to a, and a what
\* was pushed to b; right after two they hold their own again
SwapTwiceRestores ==
    (lastOp.op = "swap" /\ object = "b") =>
        /\ nswap = 1 =>
              /\ Content = PushedBack(m_size) /\ m_pool = 1
              /\ ThatContent = PushedFront(that.m_size) /\ that.m_pool = 2
        /\ nswap = 2 =>
              /\ Content = PushedFront(m_size) /\ m_pool = 2
              /\ ThatContent = PushedBack(that.m_size) /\ that.m_pool = 1

\* every pool, block and BID belongs to one object: the two point to two
\* pools, each its own; the blocks an object holds are not in its pool; the
\* BIDs of the two are allocated and no BID is in both
OneOwner ==
    /\ Alive =>
          /\ m_owns_pool
          /\ HeldBlocks \cap PoolBlocks = {}
          /\ BidsOf(m_bids) \subseteq bm_used
          /\ Cardinality(BidsOf(m_bids)) = Len(m_bids)
    /\ ThatAlive =>
          /\ that.m_owns_pool
          /\ {that.m_front_block, that.m_back_block}
                 \cap ({ThatPool.w_free[k] : k \in 1..Len(ThatPool.w_free)}
                       \cup {ThatPool.w_busy[k].block :
                                 k \in 1..Len(ThatPool.w_busy)}
                       \cup {ThatPool.p_free[k] : k \in 1..Len(ThatPool.p_free)}
                       \cup {ThatPool.p_busy[k].block :
                                 k \in 1..Len(ThatPool.p_busy)}) = {}
          /\ BidsOf(that.m_bids) \subseteq bm_used
          /\ Cardinality(BidsOf(that.m_bids)) = Len(that.m_bids)
    /\ (Alive /\ ThatAlive) =>
          /\ m_pool # that.m_pool
          /\ BidsOf(m_bids) \cap BidsOf(that.m_bids) = {}

\* C22: a.swap(b) exchanges the complete state of the two sequences: after
\* it a has b's former size and elements and b has a's, as front(), back(),
\* the pops and a stream show them; every block, BID and pool belongs to one
\* of the two; swap() called twice restores both.
C22_Swap ==
    /\ [][SwapExchanges]_allvars
    /\ [](err = "none" => (BothHoldTheirDeque /\ ForwardValues /\ OneOwner))
    /\ [](err = "none" => SwapTwiceRestores)
    /\ [][(err' = "none" /\ nswap > 0) => PopsInDequeOrder]_allvars

\* b.swap(a) was called twice on two sequences both written out to BIDs
C22_Witness ==
    /\ lastOp.op = "swap" /\ nswap = 2 /\ err = "none"
    /\ m_bids # <<>> /\ that.m_bids # <<>>
    /\ m_front_element # that.m_front_element
    /\ Content = PushedFront(m_size) /\ ThatContent = PushedBack(that.m_size)

\* after a swap, the elements pushed to b are streamed to the end from a
C22_WitnessStream ==
    /\ nswap = 1 /\ object = "a" /\ s_kind = "stream" /\ s_size = 0
    /\ err = "none" /\ Len(emitted) > B
    /\ emitted = PushedFront(Len(emitted))

----------------------------------------------------------------------------
(* The calls of the general cases *)

\* the calls of a handler without the waits for writes in flight
RECURSIVE Calls(_)
Calls(evs) ==
    IF evs = <<>> THEN <<>>
    ELSE IF Head(evs)[1] = "wait" THEN Calls(Tail(evs))
    ELSE <<Head(evs)>> \o Calls(Tail(evs))

PopFrontStep == Len(ref') = Len(ref) - 1 /\ lastOp'.op = "pop_front"
PopBackStep == Len(ref') = Len(ref) - 1 /\ lastOp'.op = "pop_back"

\* the number of hints of a general-case pop as the specification has it
HintCount == Min(m_blocks2prefetch, Len(m_bids) - 1)

\* Case 3 of pop_front reads the front BID, hints the HintCount BIDs that
\* follow it and then releases it: nothing else is called; the read is
\* complete then, the BID is not allocated and not in m_bids any more
PopFrontReadsHintsReleases ==
    (PopFrontStep /\ lastOp'.case = "3" /\ err' = "none") =>
        /\ Calls(io') = << <<"read", Head(m_bids)>> >>
                        \o [i \in 1..HintCount |-> <<"hint", m_bids[i + 1]>>]
                        \o << <<"delete_block", Head(m_bids)>> >>
        /\ m_bids' = Tail(m_bids)
        /\ Head(m_bids) \in bm_used /\ Head(m_bids) \notin bm_used'
        /\ HintsOf(Env', Head(m_bids)) = {}
        /\ BlockOf(mem', m_front_block') = SubSeq(ref', 1, B)

\* C31: in the general case pop_front submits the read of the front BID and
\* hints exactly the next min(blocks2prefetch, |bids| - 1) BIDs following it
\* in bids; the front BID is released and removed from bids only after its
\* read has completed.
C31_PopFrontGeneral == [][PopFrontReadsHintsReleases]_vars

\* a pop_front of Case 3 with three BIDs and blocks2prefetch = 1: one hint
C31_Witness ==
    /\ lastOp.op = "pop_front" /\ lastOp.case = "3" /\ err = "none"
    /\ Len(m_bids) = 2 /\ m_blocks2prefetch = 1
    /\ Calls(io) = << <<"read", io[1][2]>>, <<"hint", m_bids[1]>>,
                      <<"delete_block", io[1][2]>> >>
    /\ io[1][2] \notin bm_used

\* Case 3 of pop_back reads the back BID, hints the HintCount BIDs before
\* it, the nearest first, and then releases it
PopBackReadsHintsReleases ==
    (PopBackStep /\ lastOp'.case = "3" /\ err' = "none") =>
        /\ Calls(io') = << <<"read", Last(m_bids)>> >>
                        \o [i \in 1..HintCount |->
                               <<"hint", m_bids[Len(m_bids) - i]>>]
                        \o << <<"delete_block", Last(m_bids)>> >>
        /\ m_bids' = Front(m_bids)

\* C32 as stated: pop_back is the exact mirror of pop_front: in the general
\* case it reads the back BID and hints exactly the min(blocks2prefetch,
\* |bids| - 1) BIDs preceding it in bids, the nearest first, as many as
\* pop_front hints on the other side.
C32_PopBackMirror == [][PopBackReadsHintsReleases]_vars

\* what pop_back does: its hint loop starts at i = 1, so it hints one BID
\* fewer than pop_front, the nearest first
C32_PopBackOneHintFewer ==
    [][(PopBackStep /\ lastOp'.case = "3" /\ err' = "none") =>
          /\ Calls(io') = << <<"read", Last(m_bids)>> >>
                          \o [i \in 1..(HintCount - 1) |->
                                 <<"hint", m_bids[Len(m_bids) - i]>>]
                          \o << <<"delete_block", Last(m_bids)>> >>
          /\ m_bids' = Front(m_bids)]_vars

\* a pop_back of Case 3 with blocks2prefetch = 1 and BIDs left has hinted
\* nothing
C32_NoHint ==
    /\ lastOp.op = "pop_back" /\ lastOp.case = "3" /\ err = "none"
    /\ m_bids # <<>> /\ m_blocks2prefetch = 1
    /\ Calls(io) = << <<"read", io[1][2]>>, <<"delete_block", io[1][2]>> >>

\* the calls of a push that writes its block out to the BID b: new_block,
\* write, the hint if the BIDs, b included, are at most m_blocks2prefetch,
\* and the steal of the next block
PushCalls(b) ==
    << <<"new_block", b>>, <<"write", b>> >>
    \o (IF Len(m_bids) + 1 <= m_blocks2prefetch THEN << <<"hint", b>> >>
        ELSE <<>>)
    \o << <<"steal", 0>> >>

\* Case 2 of push_front and of push_back make the calls PushCalls on a BID
\* that was not allocated and is now at their end of m_bids
PushHintsWithinHorizon ==
    /\ (PushFrontStep /\ lastOp'.case = "2" /\ err' = "none") =>
           /\ Calls(io') = PushCalls(Head(m_bids'))
           /\ m_bids' = <<Head(m_bids')>> \o m_bids
           /\ Head(m_bids') \notin bm_used
    /\ (PushBackStep /\ lastOp'.case = "2" /\ err' = "none") =>
           /\ Calls(io') = PushCalls(Last(m_bids'))
           /\ m_bids' = m_bids \o <<Last(m_bids')>>
           /\ Last(m_bids') \notin bm_used

\* C33: a general-case push hints the newly allocated BID if and only if
\* the number of BIDs after inserting it is at most blocks2prefetch (never
\* when blocks2prefetch is 0), and only after the write of that BID was
\* enqueued.
C33_PushHint == [][PushHintsWithinHorizon]_vars

\* a push_front has written its block out and hinted the new BID, the only
\* one, after the write
C33_Witness ==
    /\ lastOp.op = "push_front" /\ lastOp.case = "2" /\ err = "none"
    /\ m_blocks2prefetch = 1 /\ Len(m_bids) = 1
    /\ \E k \in 1..(Len(io) - 1) :
           /\ io[k] = <<"write", m_bids[1]>>
           /\ \E j \in (k + 1)..Len(io) : io[j] = <<"hint", m_bids[1]>>

\* a push_back has written its block out beyond the horizon: no hint
C33_WitnessNoHint ==
    /\ lastOp.op = "push_back" /\ lastOp.case = "2" /\ err = "none"
    /\ m_blocks2prefetch = 1 /\ Len(m_bids) = 2
    /\ Calls(io) = << <<"new_block", Last(m_bids)>>, <<"write", Last(m_bids)>>,
                      <<"steal", 0>> >>

----------------------------------------------------------------------------
(* Traversals *)

\* the BIDs a handler has read, in order
ReadsOf(evs) ==
    LET rs == SelectSeq(evs, LAMBDA ev : ev[1] = "read")
    IN  [k \in 1..Len(rs) |-> rs[k][2]]

ForwardStep == lastOp'.op = "stream_next" /\ Len(emitted') = Len(emitted) + 1
ReverseStep == lastOp'.op = "reverse_next" /\ Len(emitted') = Len(emitted) + 1

\* operator++ of a stream reads only when it leaves a full block with more
\* than B elements left: then it reads the one BID under its cursor, into a
\* block that is not one of the sequence, and moves the cursor on; with at
\* most B left it goes on in the back block without a read
ForwardReads ==
    ((ForwardStep \/ (s_kind = "stream" /\ err' # err)) => err' # "assert")
    /\ ((ForwardStep /\ err' = "none") =>
           IF s_current_element = B - 1 /\ s_size - 1 > B
           THEN /\ ReadsOf(io') = <<m_bids[s_next_bid]>>
                /\ s_next_bid' = s_next_bid + 1
                /\ s_current_block' \notin {m_front_block, m_back_block}
           ELSE /\ ReadsOf(io') = <<>>
                /\ s_next_bid' = s_next_bid
                /\ (s_current_element = B - 1 /\ s_size - 1 > 0) =>
                       /\ s_current_block' = m_back_block
                       /\ s_current_element' = 0)

\* operator++ of a reverse_stream, the same towards the front
ReverseReads ==
    ((ReverseStep \/ (s_kind = "reverse_stream" /\ err' # err))
         => err' # "assert")
    /\ ((ReverseStep /\ err' = "none") =>
           IF s_current_element = 0 /\ s_size - 1 > B
           THEN /\ ReadsOf(io') = <<m_bids[s_next_bid]>>
                /\ s_next_bid' = s_next_bid - 1
                /\ s_current_block' \notin {m_front_block, m_back_block}
           ELSE /\ ReadsOf(io') = <<>>
                /\ s_next_bid' = s_next_bid
                /\ (s_current_element = 0 /\ s_size - 1 > 0) =>
                       /\ s_current_block' = m_front_block
                       /\ s_current_element' = B - 1)

\* the constructors read nothing and put the cursor on the first BID of the
\* direction
TraversalBegins ==
    /\ (s_kind = "none" /\ s_kind' = "stream" /\ s_offset' = 0) =>
           (ReadsOf(io') = <<>> /\ s_next_bid' = 1)
    /\ (s_kind = "none" /\ s_kind' = "reverse_stream") =>
           (ReadsOf(io') = <<>> /\ s_next_bid' = Len(m_bids))

\* the cursor of a live stream is on a BID or at the end; when the traversal
\* is complete it is past the last BID of the direction
CursorAtEnd ==
    /\ (s_kind = "stream" /\ err = "none") =>
           /\ s_next_bid \in 1..(Len(m_bids) + 1)
           /\ s_size = 0 => s_next_bid = Len(m_bids) + 1
    /\ (s_kind = "reverse_stream" /\ err = "none") =>
           /\ s_next_bid \in 0..Len(m_bids)
           /\ s_size = 0 => s_next_bid = 0

\* C34: a complete forward (reverse) traversal reads every BID of bids once,
\* in bids order (in reverse order), and never reads for the resident
\* blocks: the cursor starts on the first BID of the direction, every read
\* is the read of the BID under the cursor and moves it by one, a read is
\* made exactly when a block is left with more than B elements remaining,
\* and at the end the cursor is past the last BID; with at most B elements
\* left the stream goes on in the back (front) block in place.
C34_TraversalReads ==
    /\ [][ForwardReads /\ ReverseReads /\ TraversalBegins]_vars
    /\ []CursorAtEnd

\* a forward traversal of a sequence with three BIDs is complete
C34_Witness ==
    /\ s_kind = "stream" /\ s_size = 0 /\ err = "none"
    /\ Len(m_bids) = 3 /\ s_next_bid = 4
    /\ emitted = ref /\ s_current_block = m_back_block

\* a reverse traversal of a sequence with three BIDs is complete
C34_WitnessReverse ==
    /\ s_kind = "reverse_stream" /\ s_size = 0 /\ err = "none"
    /\ Len(m_bids) = 3 /\ s_next_bid = 0
    /\ emitted = Reverse(ref) /\ s_current_block = m_front_block

----------------------------------------------------------------------------
(* The stream constructor with an offset *)

\* the elements of the front block and of the back block
InFrontBlock == IF m_front_block = m_back_block THEN m_size ELSE B - m_front_element
InBackBlock == m_back_element + 1

\* the steals of a handler
StealsOf(evs) == SelectSeq(evs, LAMBDA ev : ev[1] = "steal")

\* a stream is constructed at the offset k
OffsetStep(k) == s_kind = "none" /\ lastOp'.op = "get_stream" /\ lastOp'.val = k

\* the constructor at offset k: no read and no steal if element k is in the
\* front or in the back block; else one steal, one read, of the BID at
\* index (k - InFrontBlock) / B of m_bids, and the cursor on the next BID
OffsetReads(k) ==
    IF k < InFrontBlock \/ k >= m_size - InBackBlock
    THEN ReadsOf(io') = <<>> /\ StealsOf(io') = <<>>
    ELSE /\ Len(StealsOf(io')) = 1
         /\ ReadsOf(io') = <<m_bids[(k - InFrontBlock) \div B + 1]>>
         /\ s_next_bid' = (k - InFrontBlock) \div B + 2
         /\ s_current_block' \notin {m_front_block, m_back_block}

\* C35 as stated: constructing a stream at offset k issues at most one read
\* and steals at most one block: none of either when element k lies in the
\* front block or in the back block, and exactly one read, of the BID at
\* index floor((k - elements in the front block) / B) of bids, when it lies
\* in a written-out block, after which the BID cursor is on the next BID.
C35_OffsetConstructor ==
    [][\A k \in 0..MaxPush : OffsetStep(k) => OffsetReads(k)]_vars

\* the same for every constructor call whose steal has obtained a block
C35_WhenStealSucceeds ==
    [][\A k \in 0..MaxPush :
           (OffsetStep(k) /\ err' = "none") => OffsetReads(k)]_vars

\* a stream was constructed in the second written-out block
C35_MiddleBlock ==
    /\ lastOp.op = "get_stream" /\ lastOp.case = "middle" /\ err = "none"
    /\ s_next_bid = 3 /\ ReadsOf(io) = <<m_bids[2]>>

\* the constructor has died in steal() before its read
C35_StealFailed ==
    /\ lastOp.op = "get_stream" /\ lastOp.case = "middle"
    /\ err = "PoolExhaustion" /\ ReadsOf(io) = <<>>

----------------------------------------------------------------------------
(* The asserts *)

\* the asserts of push_front and push_back, Case 1.5: m_bids.empty(), gap > 0
PushAsserts ==
    (m_front_block # m_back_block /\ m_size < 2 * B) =>
        /\ m_front_element = 0 =>
               (m_bids = <<>> /\ B - (m_back_element + 1) > 0)
        /\ m_back_element = B - 1 =>
               (m_bids = <<>> /\ m_front_element > 0)

\* the asserts of pop_front and pop_back on a sequence that is not empty
PopAsserts ==
    /\ (m_size # 0 /\ m_front_element = B - 1) =>
           IF m_back_block = m_front_block
           THEN m_size = 1 /\ m_back_element = m_front_element /\ m_bids = <<>>
           ELSE (m_bids = <<>>) = (m_size - 1 <= B)
    /\ (m_size # 0 /\ m_back_element = 0) =>
           IF m_back_block = m_front_block
           THEN m_size = 1 /\ m_back_element = m_front_element /\ m_bids = <<>>
           ELSE (m_bids = <<>>) = (m_size - 1 <= B)

\* the asserts of stream::operator++ and reverse_stream::operator++ on a
\* stream that is not empty
StreamAsserts ==
    /\ (s_kind = "stream" /\ s_size # 0 /\ s_current_element = B - 1) =>
           /\ s_size - 1 = 0 => (s_next_bid = Len(m_bids) + 1
                                 /\ s_current_block = m_back_block)
           /\ (s_next_bid = Len(m_bids) + 1) = (s_size - 1 <= B)
    /\ (s_kind = "reverse_stream" /\ s_size # 0 /\ s_current_element = 0) =>
           /\ s_size - 1 = 0 => (s_next_bid = 0
                                 /\ s_current_block = m_front_block)
           /\ (s_next_bid = 0) = (s_size - 1 <= B)

\* C36: every assert of push_front, push_back, pop_front, pop_back and of
\* operator++ of both streams holds in every reachable state, pops being
\* called on sequences and operator++ on streams that are not empty: no
\* handler stops at an assert, and what the asserts state is true wherever
\* their branch would be taken.
C36_AssertsHold ==
    /\ err # "assert"
    /\ err = "none" => (PushAsserts /\ PopAsserts /\ StreamAsserts)

\* a stream has ended at the end of the back block of a sequence with BIDs
C36_Witness ==
    /\ lastOp.op = "stream_next" /\ lastOp.case = "end" /\ err = "none"
    /\ s_current_block = m_back_block /\ s_next_bid = Len(m_bids) + 1
    /\ m_bids # <<>> /\ s_current_block # m_front_block

\* a pop_front has left a block shared by both ends: size was 1
C36_WitnessPop ==
    /\ lastOp.op = "pop_front" /\ lastOp.case = "1" /\ err = "none"
    /\ m_size = 0 /\ npush > 1

----------------------------------------------------------------------------
(* I/O for live BIDs *)

\* no write in flight and no hinted read is for a BID that is not allocated
PoolsHoldLiveBids ==
    /\ \A k \in 1..Len(w_busy) : w_busy[k].bid \in bm_used
    /\ \A k \in 1..Len(p_busy) : p_busy[k].bid \in bm_used

\* a handler of the sequence or of its stream has run
HandlerStep == <<seqvars, strvars, lastOp, ref, err>>' # <<seqvars, strvars, lastOp, ref, err>>

\* every hint and read of a handler is for a BID that is in m_bids when the
\* handler is called or when it returns
IOForOwnBids ==
    HandlerStep =>
        \A k \in 1..Len(io') :
            io'[k][1] \in {"hint", "read"} =>
                io'[k][2] \in BidsOf(m_bids) \cup BidsOf(m_bids')

\* C37 as stated: the pools only ever hold I/O for live BIDs: when a BID is
\* released, by a pop or by the destructor with an owned or an external
\* pool, no write to it is in flight and no prefetch read of it is pending;
\* no hint or read is issued for a BID that is not in bids.
C37_LiveIO == []PoolsHoldLiveBids /\ [][IOForOwnBids]_vars

\* the same without the destructor of a sequence on an external pool
C37_UnlessExternalDestroyed ==
    /\ []((Alive \/ m_owns_pool) => PoolsHoldLiveBids)
    /\ [][IOForOwnBids]_vars

\* the destructor has released a BID that the external pool still holds a
\* write or a hinted read for
C37_ReleasedWithIO ==
    /\ lastOp.op = "~sequence" /\ lastOp.case = "external"
    /\ ~PoolsHoldLiveBids

----------------------------------------------------------------------------
(* The write pool *)

\* C38 as stated: with a write pool of 2 blocks or more, the minimum init()
\* enforces, every steal() of push_front, push_back, the stream constructor
\* with an offset and operator++ of both streams obtains a block: the pool
\* is never found exhausted.
C38_NeverExhausted == err # "PoolExhaustion"

\* the pool is found exhausted only by a stream, on a write pool of 2 blocks
\* that are the front and the back block of the sequence; the pushes always
\* obtain a block
C38_OnlyStreamsOnPoolOfTwo ==
    err = "PoolExhaustion" =>
        /\ lastOp.op \in {"get_stream", "stream_next", "reverse_next"}
        /\ w_free = <<>> /\ w_busy = <<>>
        /\ m_front_block # m_back_block
        /\ HeldBlocks = {m_front_block, m_back_block}

\* operator++ of a stream has found the write pool exhausted
C38_Exhausted ==
    /\ err = "PoolExhaustion" /\ lastOp.op = "stream_next"
    /\ io = << <<"steal", 0>> >>

----------------------------------------------------------------------------
(* The element pointers *)

\* m_front_element is on a cell of the front block, m_back_element on a cell
\* of the back block or one before its first, and there only if the sequence
\* is empty; two different blocks hold an element each, so an empty sequence
\* has one block
PointersInBlocks ==
    /\ m_front_element \in 0..(B - 1)
    /\ m_back_element \in BeforeBegin..(B - 1)
    /\ m_back_element = BeforeBegin => m_size = 0
    /\ m_front_block # m_back_block =>
           /\ B - m_front_element >= 1
           /\ m_back_element + 1 >= 1
           /\ m_size >= 2
    /\ m_size = 0 => m_front_block = m_back_block

\* a push stores its value in a cell of its block, where the element pointer
\* of its end then is
PushStoresInBlock ==
    /\ (PushFrontStep /\ err' = "none") =>
           /\ m_front_element' \in 0..(B - 1)
           /\ mem'[m_front_block'][m_front_element'] = lastOp'.val
    /\ (PushBackStep /\ err' = "none") =>
           /\ m_back_element' \in 0..(B - 1)
           /\ mem'[m_back_block'][m_back_element'] = lastOp'.val

\* C39: in every reachable state front_element is on a cell with index in
\* [0, B) of the front block and back_element on an index in [-1, B) of the
\* back block, -1 only when the sequence is empty; when front_block and
\* back_block differ each holds at least one element, so size == 0 implies
\* front_block == back_block; no push stores outside the B cells of its
\* block.
C39_Pointers ==
    /\ []((err = "none" /\ Alive) => PointersInBlocks)
    /\ [][PushStoresInBlock]_vars

\* an empty sequence whose back element is not before the begin of the
\* block: the last element was popped from a block that held it in the middle
C39_Witness ==
    /\ m_size = 0 /\ npush > 0 /\ err = "none"
    /\ m_back_element # BeforeBegin /\ m_back_element < m_front_element
    /\ m_front_block = m_back_block

\* two blocks, the back block with one element, the front block full
C39_WitnessTwoBlocks ==
    /\ m_front_block # m_back_block /\ err = "none"
    /\ m_back_element = 0 /\ m_front_element = 0 /\ m_bids # <<>>

ContentIsRef == err = "none" => Content = ref
NoAssertFails == err # "assert"
NoExhaustion == err # "PoolExhaustion"
====
